---- MODULE Spec2Model ----
(***************************************************************************)
(* Model of the selection-and-resilience layer of tencent_video_scraper:   *)
(* the relay pool (ThirdPartyParserManager, third_party_parser.py) and the *)
(* proxy pool (ProxyManager, proxy_manager.py).                            *)
(*                                                                         *)
(* Time is the integer clock `now` (time.time(), in seconds).  Latencies   *)
(* are differences of two readings of that clock.                          *)
(***************************************************************************)
EXTENDS Integers, Sequences, FiniteSets, TLC

VARIABLES
    now,            \* time.time()
    ticks,          \* number of clock advances so far (bounds the run)
    parsers,        \* ThirdPartyParserManager.parsers: list of ParserInterface
    pc,             \* position of the one parse() coroutine
    video_url,      \* parse(): the target passed by the caller
    sorted_parsers, \* parse(): local snapshot returned by get_sorted_parsers()
    idx,            \* parse(): position of the for loop in sorted_parsers
    start_time,     \* parse(): local start_time of the attempt in flight
    result,         \* parse(): value returned to the caller
    attempted,      \* parse(): names whose transport request was issued, in order
    recS,           \* parse(): names passed to _record_success by this call
    recF,           \* parse(): names passed to _record_failure by this call
    proxies,        \* ProxyManager.proxies: url -> ProxyInfo
    probing,        \* urls whose _check_proxy coroutine is suspended in its request
    check_task,     \* the health-check loop tasks of the ProxyManager and its check_task
    clock,          \* time.time() as the rate limiter reads it, in milliseconds
    limiter,        \* the RateLimiter (AdaptiveRateLimiter) object
    callers,        \* position of each coroutine that calls limiter.acquire()
    issued,         \* clock readings at which acquire() calls completed, in order
    fetch,          \* the one HTTPClient.get coroutine: its locals and position
    svip,           \* the SVIPHandler: its strategies and the one bypass coroutine
    batch,          \* the scraper engine's batch call: its tasks, results and stats
    stats_file,     \* content of the stats file of the relay pool, None when absent
    returned        \* the last management call on a pool and the value it returned

relayVars == <<parsers, pc, video_url, sorted_parsers, idx, start_time, result,
               attempted, recS, recF>>
proxyVars == <<proxies, probing, check_task>>
limiterVars == <<clock, limiter, callers, issued>>
engineVars == <<svip, batch, stats_file, returned>>
clientVars == <<limiterVars, fetch, engineVars>>
vars == <<now, ticks, relayVars, proxyVars, clientVars>>

----------------------------------------------------------------------------
(* Bounds of the model *)

\* clock advances per run of the single-resource ledger
MaxLedgerTicks == 2
\* clock advances per run of the pool
MaxPoolTicks == 1
\* _record_failure calls per resource in the single-resource ledger runs
MaxLedgerFailures == 12
\* _record_success calls per resource in the single-resource ledger runs
MaxLedgerSuccesses == 2
\* failures recorded over the whole pool in the parse() runs
MaxPoolFailures == 5
\* successes recorded over the whole pool in the parse() runs
MaxPoolSuccesses == 1
\* _record_failure calls per resource in the ranking runs
MaxRankFailures == 1
\* _record_success calls per resource in the ranking runs
MaxRankSuccesses == 1
\* sleeps of the health-check loop per run of the proxy pool
MaxProxyTicks == 3
\* failures counted over the proxy pool, probes in flight included
MaxProxyFailures == 4
\* successful probes counted over the proxy pool, probes in flight included
MaxProxySuccesses == 1
\* seconds that pass during the probes of a selection run
MaxSelectTicks == 1
\* get() calls per run of the client
MaxFetches == 2
\* acquire() calls per run of the limiter
MaxAcquires == 4
\* times acquire() lowers backoff_factor per run of the limiter
MaxDecays == 2
\* backoff events per run of the limiter
MaxBackoffEvents == 7
\* idle periods per run of the limiter
MaxIdleTicks == 1

\* decisions an adaptive limiter takes in a run
MaxDecisions == 2

\* bypass_svip_restriction calls of a run
MaxBypassRuns == 2

\* failures recorded over the pool in a scenario run
MaxScenarioFailures == 6

\* batch calls on one engine in a run
MaxBatches == 2

\* outcomes recorded over the pool between two restarts
MaxStatsRecords == 2
\* save_stats calls in a run
MaxSaves == 1
\* constructions of a new pool in a run
MaxRestarts == 1

\* update_rate calls in a run
MaxRateUpdates == 1
\* acquire() calls in a run with update_rate calls
MaxRateAcquires == 3
\* set_backoff and reset_backoff calls by the user of the limiter in a run
MaxFactorCalls == 2

\* largest attempt number given to the retry helpers of the client
MaxAttempt == 5
\* largest config.max_retries given to _should_retry
MaxRetriesConfig == 3

\* health-check loop tasks created in a run
MaxLoopTasks == 2
\* sleeps of a health-check loop that end in a run
MaxHealthTicks == 1

\* response times handed to a direct _record_success call
Latencies == {1, 2}

(* Program constants *)
COOLDOWN_BASE == 60
COOLDOWN_MAX == 3600
MAX_CONSECUTIVE_FAILURES == 5
\* ProxyManager(proxies, check_interval=300)
check_interval == 300
\* ScraperConfig.max_retries
max_retries == 3
\* ScraperConfig.rate_limit (1.0), in thousandths
rate_limit == 10 ^ 3
\* RateLimiter.max_backoff
max_backoff == 60
\* length of an idle period of the limiter's callers, in milliseconds
IdleStep == 10 ^ 3 \div 2

\* Optional[float] is modelled as a set with at most one element
None == {}
Some(x) == {x}
The(s) == CHOOSE x \in s : TRUE

Min(a, b) == IF a <= b THEN a ELSE b
Max(a, b) == IF a >= b THEN a ELSE b

----------------------------------------------------------------------------
(* ParserInterface *)

\* ParserInterface(name=..., url_template=..., response_type=...)
NewParser(name) ==
    [name |-> name, enabled |-> TRUE, success_count |-> 0, failure_count |-> 0,
     total_response_time |-> 0, consecutive_failures |-> 0,
     cooldown_until |-> None]

\* get_success_rate as the fraction num/den; 0.5 when there is no observation
RateNum(p) == IF p.success_count + p.failure_count > 0 THEN p.success_count ELSE 1
RateDen(p) ==
    IF p.success_count + p.failure_count > 0
    THEN p.success_count + p.failure_count ELSE 2

\* get_average_response_time is float('inf') when success_count = 0
AvgIsInf(p) == p.success_count = 0

\* variant: the deadline instant itself still counts as cooling down
is_in_cooldown_at_inclusive(p, t) ==
    IF p.cooldown_until = None THEN FALSE ELSE t <= The(p.cooldown_until)

\* ParserInterface.is_in_cooldown, with time.time() read as t
is_in_cooldown_at(p, t) ==
    IF p.cooldown_until = None THEN FALSE ELSE t < The(p.cooldown_until)

is_in_cooldown(p) == is_in_cooldown_at(p, now)

----------------------------------------------------------------------------
(* get_sorted_parsers: sorted(available, key=(-success_rate, avg_response_time)) *)

RateGreater(p, q) == RateNum(p) * RateDen(q) > RateNum(q) * RateDen(p)
RateEq(p, q) == RateNum(p) * RateDen(q) = RateNum(q) * RateDen(p)

AvgLess(p, q) ==
    IF AvgIsInf(p) THEN FALSE
    ELSE IF AvgIsInf(q) THEN TRUE
    ELSE p.total_response_time * q.success_count
             < q.total_response_time * p.success_count

AvgEq(p, q) ==
    IF AvgIsInf(p) \/ AvgIsInf(q) THEN AvgIsInf(p) /\ AvgIsInf(q)
    ELSE p.total_response_time * q.success_count
             = q.total_response_time * p.success_count

\* variant: the sort key is the success rate alone
KeyLessRateOnly(p, q) == RateGreater(p, q)

\* tuple comparison of the sort keys: key(p) < key(q)
KeyLess(p, q) == RateGreater(p, q) \/ (RateEq(p, q) /\ AvgLess(p, q))

\* sorted() is stable: an element goes after every element whose key is not greater
RECURSIVE SortedInsert(_, _)
SortedInsert(s, x) ==
    IF s = <<>> THEN <<x>>
    ELSE IF KeyLess(x, Head(s)) THEN <<x>> \o s
    ELSE <<Head(s)>> \o SortedInsert(Tail(s), x)

RECURSIVE StableSort(_)
StableSort(s) ==
    IF s = <<>> THEN <<>>
    ELSE SortedInsert(StableSort(SubSeq(s, 1, Len(s) - 1)), s[Len(s)])

IsAvailableAt(p, t) == p.enabled /\ ~is_in_cooldown_at(p, t)
IsAvailable(p) == IsAvailableAt(p, now)

get_sorted_parsers_at(ps, t) ==
    StableSort(SelectSeq(ps, LAMBDA p : IsAvailableAt(p, t)))

get_sorted_parsers == get_sorted_parsers_at(parsers, now)

----------------------------------------------------------------------------
(* Ledger operations of ThirdPartyParserManager *)

\* variant: a success leaves the cooldown deadline in place
record_success_keeps_cooldown(p, response_time) ==
    [p EXCEPT !.success_count = @ + 1,
              !.total_response_time = @ + response_time,
              !.consecutive_failures = 0]

\* _record_success(parser, response_time)
record_success(p, response_time) ==
    [p EXCEPT !.success_count = @ + 1,
              !.total_response_time = @ + response_time,
              !.consecutive_failures = 0,
              !.cooldown_until = None]

\* variant: the exponential cooldown without its cap
CooldownTimeUncapped(c) ==
    COOLDOWN_BASE * (2 ^ (c - MAX_CONSECUTIVE_FAILURES))

\* cooldown_time computed by _record_failure for c consecutive failures
CooldownTime(c) ==
    Min(COOLDOWN_BASE * (2 ^ (c - MAX_CONSECUTIVE_FAILURES)), COOLDOWN_MAX)

\* variant: the cooldown starts one failure late (> instead of >=)
record_failure_late(p, t) ==
    LET c == p.consecutive_failures + 1 IN
    [p EXCEPT !.failure_count = @ + 1,
              !.consecutive_failures = c,
              !.cooldown_until =
                  IF c > MAX_CONSECUTIVE_FAILURES
                  THEN Some(t + CooldownTime(c)) ELSE @]

\* _record_failure(parser), with time.time() read as t
record_failure(p, t) ==
    LET c == p.consecutive_failures + 1 IN
    [p EXCEPT !.failure_count = @ + 1,
              !.consecutive_failures = c,
              !.cooldown_until =
                  IF c >= MAX_CONSECUTIVE_FAILURES
                  THEN Some(t + CooldownTime(c)) ELSE @]

\* variant: reset_stats zeroes the counters but not the failure streak
reset_one_keeps_streak(p) ==
    [p EXCEPT !.success_count = 0, !.failure_count = 0,
              !.total_response_time = 0,
              !.cooldown_until = None]

\* the assignments reset_stats makes to one parser
reset_one(p) ==
    [p EXCEPT !.success_count = 0, !.failure_count = 0,
              !.total_response_time = 0, !.consecutive_failures = 0,
              !.cooldown_until = None]

\* get_parser_by_name: index of the first parser with that name, 0 for None
get_parser_by_name(ps, name) ==
    IF \E i \in 1..Len(ps) : ps[i].name = name
    THEN CHOOSE i \in 1..Len(ps) :
             ps[i].name = name /\ \A j \in 1..(i - 1) : ps[j].name # name
    ELSE 0

----------------------------------------------------------------------------
(* Clock *)

\* pending cooldown deadlines
Deadlines ==
    {t \in UNION {parsers[i].cooldown_until : i \in 1..Len(parsers)} : t > now}

\* one second passes
Tick(limit) ==
    /\ ticks < limit
    /\ now' = now + 1
    /\ ticks' = ticks + 1
    /\ UNCHANGED <<relayVars, proxyVars, clientVars>>

\* time passes until a cooldown deadline is reached
TickToDeadline(limit) ==
    /\ ticks < limit
    /\ \E t \in Deadlines : now' = t
    /\ ticks' = ticks + 1
    /\ UNCHANGED <<relayVars, proxyVars, clientVars>>

----------------------------------------------------------------------------
(* _record_success, _record_failure and reset_stats called directly on the *)
(* pool, as the property tests do; `limit` bounds the counter of the run.  *)

RecordSuccess(i, response_time, limit) ==
    /\ parsers[i].success_count < limit
    /\ parsers' = [parsers EXCEPT ![i] = record_success(@, response_time)]
    /\ UNCHANGED <<now, ticks, pc, video_url, sorted_parsers, idx, start_time,
                   result, attempted, recS, recF, proxyVars, clientVars>>

RecordFailure(i, limit) ==
    /\ parsers[i].failure_count < limit
    /\ parsers' = [parsers EXCEPT ![i] = record_failure(@, now)]
    /\ UNCHANGED <<now, ticks, pc, video_url, sorted_parsers, idx, start_time,
                   result, attempted, recS, recF, proxyVars, clientVars>>

\* reset_stats()
ResetStats ==
    /\ \E i \in 1..Len(parsers) : parsers[i] # reset_one(parsers[i])
    /\ parsers' = [i \in 1..Len(parsers) |-> reset_one(parsers[i])]
    /\ UNCHANGED <<now, ticks, pc, video_url, sorted_parsers, idx, start_time,
                   result, attempted, recS, recF, proxyVars, clientVars>>

InitParseIdle ==
    /\ pc = "idle"
    /\ video_url = "none"
    /\ sorted_parsers = <<>>
    /\ idx = 0
    /\ start_time = 0
    /\ result = None
    /\ attempted = <<>>
    /\ recS = <<>>
    /\ recF = <<>>

InitProxyIdle ==
    /\ proxies = <<>>
    /\ probing = {}
    /\ check_task = <<>>

\* no SVIPHandler, no batch call and no stats file in the run
InitEngineIdle ==
    /\ svip = <<>>
    /\ batch = <<>>
    /\ stats_file = {}
    /\ returned = <<>>

\* no rate limiter and no HTTP client take part
InitClientIdle ==
    /\ clock = 0
    /\ limiter = <<>>
    /\ callers = <<>>
    /\ issued = <<>>
    /\ fetch = <<>>
    /\ InitEngineIdle

InitLedger ==
    /\ now = 0
    /\ ticks = 0
    /\ parsers = <<NewParser("A")>>
    /\ InitParseIdle
    /\ InitProxyIdle
    /\ InitClientIdle

NextLedger ==
    \/ \E i \in 1..Len(parsers), rt \in Latencies :
           RecordSuccess(i, rt, MaxLedgerSuccesses)
    \/ \E i \in 1..Len(parsers) : RecordFailure(i, MaxLedgerFailures)
    \/ ResetStats
    \/ Tick(MaxLedgerTicks)
    \/ TickToDeadline(MaxLedgerTicks)

SpecLedger == InitLedger /\ [][NextLedger]_vars

----------------------------------------------------------------------------
(* ThirdPartyParserManager: the pool and parse() *)

\* DEFAULT_PARSERS, the built-in relay list, cut to three entries and
\* to their names (the code lists ten; "A" is registered first)
DEFAULT_PARSERS == <<"A", "B", "C">>

\* targets a caller may pass: one urlparse accepts, one it rejects
\* (ValueError, e.g. an unbalanced '[' in the host part)
TargetUrls == {"wellformed", "malformed"}

\* what one relay attempt can produce: a body whose extracted URL passes
\* validate_play_url; no response or no _content; no URL extracted; an
\* extracted URL rejected by validate_play_url; an exception raised by
\* http_client.get
Outcomes == {"ok", "no_body", "no_url", "invalid_url", "exception"}

Names(ps) == [i \in 1..Len(ps) |-> ps[i].name]

\* the parser object a name refers to, updated in place
UpdateByName(ps, name, f(_)) ==
    [i \in 1..Len(ps) |-> IF ps[i].name = name THEN f(ps[i]) ELSE ps[i]]

\* the head of one iteration of `for parser in sorted_parsers`: the request
\* for sp[k] is issued and awaited, or the loop is over and None is returned
EnterIteration(sp, k) ==
    IF k <= Len(sp)
    THEN /\ idx' = k
         /\ attempted' = Append(attempted, sp[k])
         /\ start_time' = now
         /\ pc' = "await_get"
         /\ result' = None
    ELSE /\ idx' = k
         /\ attempted' = attempted
         /\ start_time' = start_time
         /\ pc' = "returned"
         /\ result' = None

\* counters of the whole pool, to bound a run
RECURSIVE TotalSuccesses(_)
TotalSuccesses(ps) ==
    IF ps = <<>> THEN 0 ELSE Head(ps).success_count + TotalSuccesses(Tail(ps))

RECURSIVE TotalFailures(_)
TotalFailures(ps) ==
    IF ps = <<>> THEN 0 ELSE Head(ps).failure_count + TotalFailures(Tail(ps))

\* parse(video_url, http_client) up to its first suspension
ParseCall(url) ==
    /\ pc = "idle"
    /\ TotalFailures(parsers) + Len(get_sorted_parsers) <= MaxPoolFailures
    /\ video_url' = url
    /\ recS' = <<>>
    /\ recF' = <<>>
    /\ IF url = "malformed"
       THEN \* urlparse(video_url) raises before the try block is entered
            /\ pc' = "raised"
            /\ UNCHANGED <<sorted_parsers, idx, start_time, result, attempted>>
       ELSE LET sp == Names(get_sorted_parsers) IN
            /\ sorted_parsers' = sp
            /\ IF sp = <<>>
               THEN /\ pc' = "returned"
                    /\ result' = None
                    /\ UNCHANGED <<idx, start_time, attempted>>
               ELSE EnterIteration(sp, 1)
    /\ UNCHANGED <<now, ticks, parsers, proxyVars, clientVars>>

\* variant: the success is recorded but the loop goes on (missing return)
OnValidUrlContinue(name, response_time) ==
    /\ parsers' = UpdateByName(parsers, name,
                      LAMBDA p : record_success(p, response_time))
    /\ recS' = Append(recS, name)
    /\ recF' = recF
    /\ IF idx + 1 <= Len(sorted_parsers)
       THEN /\ idx' = idx + 1
            /\ attempted' = Append(attempted, sorted_parsers[idx + 1])
            /\ start_time' = now
            /\ pc' = "await_get"
            /\ result' = Some("play_url")
       ELSE /\ pc' = "returned"
            /\ result' = Some("play_url")
            /\ UNCHANGED <<idx, start_time, attempted>>

\* lines 413-416: the extracted URL passed validate_play_url
OnValidUrl(name, response_time) ==
    /\ parsers' = UpdateByName(parsers, name,
                      LAMBDA p : record_success(p, response_time))
    /\ recS' = Append(recS, name)
    /\ result' = Some("play_url")
    /\ pc' = "returned"
    /\ UNCHANGED <<recF, idx, start_time, attempted>>

\* lines 418-420: no body, no URL or an invalid URL
OnFailedAttempt(name) ==
    /\ parsers' = UpdateByName(parsers, name, LAMBDA p : record_failure(p, now))
    /\ recF' = Append(recF, name)
    /\ pc' = "sleep"
    /\ UNCHANGED <<recS, result, idx, start_time, attempted>>

\* lines 422-425: except Exception, then continue
OnException(name) ==
    /\ parsers' = UpdateByName(parsers, name, LAMBDA p : record_failure(p, now))
    /\ recF' = Append(recF, name)
    /\ recS' = recS
    /\ EnterIteration(sorted_parsers, idx + 1)

\* http_client.get returns or raises; the rest of the loop body up to the
\* next suspension
ParseResponse(outcome) ==
    /\ pc = "await_get"
    /\ CASE outcome = "ok" ->
              /\ TotalSuccesses(parsers) < MaxPoolSuccesses
              /\ OnValidUrl(sorted_parsers[idx], now - start_time)
         [] outcome \in {"no_body", "no_url", "invalid_url"} ->
              OnFailedAttempt(sorted_parsers[idx])
         [] outcome = "exception" ->
              OnException(sorted_parsers[idx])
    /\ UNCHANGED <<now, ticks, video_url, sorted_parsers, proxyVars, clientVars>>

\* asyncio.sleep(0.3) is over
ParseSleepDone ==
    /\ pc = "sleep"
    /\ EnterIteration(sorted_parsers, idx + 1)
    /\ UNCHANGED <<now, ticks, parsers, video_url, sorted_parsers, recS, recF,
                   proxyVars, clientVars>>

\* variant: the CancelledError is caught by `except Exception`, where the
\* attempt under way is recorded as a failure
cancel_recorded_as_failure(p, t) == record_failure(p, t)

\* what a CancelledError does to the ledger of the relay under way: it is a
\* BaseException, so `except Exception` (lines 422-425) lets it pass and
\* _record_failure is not called
cancel_recorded(p, t) == p

\* the task running parse() is cancelled where it is suspended, in
\* http_client.get (line 400) or in asyncio.sleep(0.3) (line 420); the
\* CancelledError leaves parse()
ParseCancel ==
    /\ pc \in {"await_get", "sleep"}
    /\ parsers' = UpdateByName(parsers, sorted_parsers[idx],
                      LAMBDA p : cancel_recorded(p, now))
    /\ pc' = "cancelled"
    /\ UNCHANGED <<now, ticks, video_url, sorted_parsers, idx, start_time, result,
                   attempted, recS, recF, proxyVars, clientVars>>

\* the caller has taken the result (or the exception); a new call may follow
ParseReturn ==
    /\ pc \in {"returned", "raised", "cancelled"}
    /\ pc' = "idle"
    /\ video_url' = "none"
    /\ sorted_parsers' = <<>>
    /\ idx' = 0
    /\ start_time' = 0
    /\ result' = None
    /\ attempted' = <<>>
    /\ recS' = <<>>
    /\ recF' = <<>>
    /\ UNCHANGED <<now, ticks, parsers, proxyVars, clientVars>>

\* enable_parser(name)
EnableParser(name) ==
    /\ get_parser_by_name(parsers, name) # 0
    /\ ~parsers[get_parser_by_name(parsers, name)].enabled
    /\ parsers' = [parsers EXCEPT ![get_parser_by_name(parsers, name)].enabled = TRUE]
    /\ UNCHANGED <<now, ticks, pc, video_url, sorted_parsers, idx, start_time,
                   result, attempted, recS, recF, proxyVars, clientVars>>

\* disable_parser(name)
DisableParser(name) ==
    /\ get_parser_by_name(parsers, name) # 0
    /\ parsers[get_parser_by_name(parsers, name)].enabled
    /\ parsers' = [parsers EXCEPT ![get_parser_by_name(parsers, name)].enabled = FALSE]
    /\ UNCHANGED <<now, ticks, pc, video_url, sorted_parsers, idx, start_time,
                   result, attempted, recS, recF, proxyVars, clientVars>>

\* ThirdPartyParserManager(): _init_parsers with no config file and no
\* parser_stats.json on disk
InitRelay ==
    /\ now = 0
    /\ ticks = 0
    /\ parsers = [i \in 1..Len(DEFAULT_PARSERS) |-> NewParser(DEFAULT_PARSERS[i])]
    /\ InitParseIdle
    /\ InitProxyIdle
    /\ InitClientIdle

PoolNames == {DEFAULT_PARSERS[i] : i \in 1..Len(DEFAULT_PARSERS)}

NextRelay ==
    \/ \E url \in TargetUrls : ParseCall(url)
    \/ \E outcome \in Outcomes : ParseResponse(outcome)
    \/ ParseSleepDone
    \/ ParseReturn
    \/ \E name \in PoolNames : EnableParser(name)
    \/ \E name \in PoolNames : DisableParser(name)
    \/ TickToDeadline(MaxPoolTicks)

SpecRelay == InitRelay /\ [][NextRelay]_vars

\* parse() run as a task that its owner may cancel
NextCancel ==
    \/ \E url \in TargetUrls : ParseCall(url)
    \/ \E outcome \in Outcomes : ParseResponse(outcome)
    \/ ParseSleepDone
    \/ ParseCancel
    \/ ParseReturn
    \/ \E name \in PoolNames : EnableParser(name)
    \/ \E name \in PoolNames : DisableParser(name)
    \/ TickToDeadline(MaxPoolTicks)

SpecCancel == InitRelay /\ [][NextCancel]_vars

----------------------------------------------------------------------------
(* Ranking runs: the whole default pool, ledgers driven directly *)

NextRank ==
    \/ \E i \in 1..Len(parsers), rt \in Latencies :
           RecordSuccess(i, rt, MaxRankSuccesses)
    \/ \E i \in 1..Len(parsers) : RecordFailure(i, MaxRankFailures)
    \/ \E name \in PoolNames : EnableParser(name)
    \/ \E name \in PoolNames : DisableParser(name)

SpecRank == InitRelay /\ [][NextRank]_vars

\* scenario runs: a fresh pool of three, a few failures and one success
\* recorded on it while the clock stands
NextScenario ==
    \/ \E i \in 1..Len(parsers), rt \in Latencies :
           /\ TotalSuccesses(parsers) < MaxRankSuccesses
           /\ RecordSuccess(i, rt, MaxRankSuccesses)
    \/ \E i \in 1..Len(parsers) :
           /\ TotalFailures(parsers) < MaxScenarioFailures
           /\ RecordFailure(i, MaxScenarioFailures)

SpecScenario == InitRelay /\ [][NextScenario]_vars

----------------------------------------------------------------------------
(* ProxyManager: the proxy pool.                                           *)
(* `proxies` is the insertion-ordered dict as a sequence of ProxyInfo.     *)
(* probe_fails and request_fails are history fields, not in the code:      *)
(* the failed probes, and the mark_proxy_failed calls, counted since the   *)
(* proxy's last successful probe, reset or registration.                   *)

\* urls a caller may pass
ProxyUrls == {"p1", "p2"}

\* ProxyInfo(url)
NewProxy(url) ==
    [url |-> url, status |-> "ACTIVE", last_check |-> 0, failure_count |-> 0,
     success_count |-> 0, response_time |-> 0,
     probe_fails |-> 0, request_fails |-> 0]

\* position of url in the dict, 0 when it is not a key
ProxyIndex(ps, url) ==
    IF \E i \in 1..Len(ps) : ps[i].url = url
    THEN CHOOSE i \in 1..Len(ps) : ps[i].url = url
    ELSE 0

Registered(url) == ProxyIndex(proxies, url) # 0

\* ProxyInfo.success_rate as a fraction; 0 without observation
ProxyRateNum(p) == IF p.success_count + p.failure_count > 0 THEN p.success_count ELSE 0
ProxyRateDen(p) ==
    IF p.success_count + p.failure_count > 0
    THEN p.success_count + p.failure_count ELSE 1

\* order of sort(key=(success_rate, -response_time), reverse=True)
ProxyBefore(p, q) ==
    \/ ProxyRateNum(p) * ProxyRateDen(q) > ProxyRateNum(q) * ProxyRateDen(p)
    \/ /\ ProxyRateNum(p) * ProxyRateDen(q) = ProxyRateNum(q) * ProxyRateDen(p)
       /\ p.response_time < q.response_time

\* list.sort is stable, also with reverse=True
RECURSIVE ProxyInsert(_, _)
ProxyInsert(s, x) ==
    IF s = <<>> THEN <<x>>
    ELSE IF ProxyBefore(x, Head(s)) THEN <<x>> \o s
    ELSE <<Head(s)>> \o ProxyInsert(Tail(s), x)

RECURSIVE ProxySort(_)
ProxySort(s) ==
    IF s = <<>> THEN <<>>
    ELSE ProxyInsert(ProxySort(SubSeq(s, 1, Len(s) - 1)), s[Len(s)])

\* variant: a proxy under check still counts as selectable
active_proxies_with_checking(ps) ==
    SelectSeq(ps, LAMBDA p : p.status \in {"ACTIVE", "CHECKING"})

\* get_active_proxy, lines 144-147: the proxies whose status is ACTIVE
active_proxies(ps) == SelectSeq(ps, LAMBDA p : p.status = "ACTIVE")

\* variant: the top half rounded up
top_count_ceil(n) == Max(1, (n + 1) \div 2)

\* get_active_proxy, line 160: max(1, len(active_proxies) // 2)
top_count(n) == Max(1, n \div 2)

\* get_active_proxy: the values the call can return, random.choice taking
\* any element of top_proxies; None is {} and a url u is {u}
get_active_proxy ==
    LET active == active_proxies(proxies)
        sorted == ProxySort(active)
        top_proxies == SubSeq(sorted, 1, top_count(Len(sorted)))
    IN IF active = <<>> THEN {None}
       ELSE {Some(top_proxies[k].url) : k \in 1..Len(top_proxies)}

\* counters of the whole pool, to bound a run
RECURSIVE PoolFailures(_)
PoolFailures(ps) ==
    IF ps = <<>> THEN 0 ELSE Head(ps).failure_count + PoolFailures(Tail(ps))

RECURSIVE PoolSuccesses(_)
PoolSuccesses(ps) ==
    IF ps = <<>> THEN 0 ELSE Head(ps).success_count + PoolSuccesses(Tail(ps))

\* the ProxyInfo a url refers to, updated in place
UpdateProxy(ps, url, f(_)) ==
    [i \in 1..Len(ps) |-> IF ps[i].url = url THEN f(ps[i]) ELSE ps[i]]

\* _check_all_proxies picks the proxy (last check older than
\* check_interval); _check_proxy runs up to its request
ProbeStart(url) ==
    /\ Registered(url)
    /\ \A e \in probing : e.url # url
    /\ now - proxies[ProxyIndex(proxies, url)].last_check > check_interval
    /\ PoolFailures(proxies) + Cardinality(probing) < MaxProxyFailures
    /\ PoolSuccesses(proxies) + Cardinality(probing) < MaxProxySuccesses
    /\ proxies' = UpdateProxy(proxies, url,
                      LAMBDA p : [p EXCEPT !.status = "CHECKING", !.last_check = now])
    /\ probing' = probing \cup {[url |-> url, start_time |-> now]}
    /\ UNCHANGED <<now, ticks, check_task, relayVars, clientVars>>

\* variant: a probe failure marks the proxy FAILED one failure late
probe_failed_late(p, elapsed) ==
    [p EXCEPT !.failure_count = @ + 1,
              !.response_time = elapsed,
              !.status = IF p.failure_count + 1 > 3 THEN "FAILED" ELSE "ACTIVE",
              !.probe_fails = @ + 1]

\* _check_proxy, lines 130-140: the request raised or the status is not 200
probe_failed(p, elapsed) ==
    [p EXCEPT !.failure_count = @ + 1,
              !.response_time = elapsed,
              !.status = IF p.failure_count + 1 >= 3 THEN "FAILED" ELSE "ACTIVE",
              !.probe_fails = @ + 1]

\* _check_proxy, lines 121-126: the response has status 200
probe_succeeded(p, elapsed) ==
    [p EXCEPT !.response_time = elapsed,
              !.success_count = @ + 1,
              !.failure_count = 0,
              !.status = "ACTIVE",
              !.probe_fails = 0,
              !.request_fails = 0]

\* the request of a probe in flight completes
ProbeEnd(e, ok) ==
    /\ e \in probing
    /\ probing' = probing \ {e}
    /\ proxies' = UpdateProxy(proxies, e.url,
                      LAMBDA p : IF ok THEN probe_succeeded(p, now - e.start_time)
                                 ELSE probe_failed(p, now - e.start_time))
    /\ UNCHANGED <<now, ticks, check_task, relayVars, clientVars>>

\* mark_proxy_banned(proxy_url): the pool afterwards
mark_proxy_banned(ps, url) ==
    UpdateProxy(ps, url, LAMBDA p : [p EXCEPT !.status = "BANNED"])

\* variant: the status changes one failure late
mark_proxy_failed_late(ps, url) ==
    UpdateProxy(ps, url,
                LAMBDA p : [p EXCEPT !.failure_count = @ + 1,
                                     !.status = IF p.failure_count + 1 > 3
                                                THEN "FAILED" ELSE @,
                                     !.request_fails = @ + 1])

\* mark_proxy_failed(proxy_url): the pool afterwards
mark_proxy_failed(ps, url) ==
    UpdateProxy(ps, url,
                LAMBDA p : [p EXCEPT !.failure_count = @ + 1,
                                     !.status = IF p.failure_count + 1 >= 3
                                                THEN "FAILED" ELSE @,
                                     !.request_fails = @ + 1])

\* mark_proxy_banned(proxy_url)
MarkProxyBanned(url) ==
    /\ Registered(url)
    /\ proxies' = mark_proxy_banned(proxies, url)
    /\ UNCHANGED <<now, ticks, probing, check_task, relayVars, clientVars>>

\* mark_proxy_failed(proxy_url)
MarkProxyFailed(url) ==
    /\ Registered(url)
    /\ PoolFailures(proxies) + Cardinality(probing) < MaxProxyFailures
    /\ proxies' = mark_proxy_failed(proxies, url)
    /\ UNCHANGED <<now, ticks, probing, check_task, relayVars, clientVars>>

\* reset_proxy(proxy_url)
ResetProxy(url) ==
    /\ Registered(url)
    /\ proxies' = UpdateProxy(proxies, url,
                      LAMBDA p : [p EXCEPT !.status = "ACTIVE",
                                           !.failure_count = 0,
                                           !.last_check = 0,
                                           !.probe_fails = 0,
                                           !.request_fails = 0])
    /\ UNCHANGED <<now, ticks, probing, check_task, relayVars, clientVars>>

\* add_proxy(proxy_url): an url that is a key already keeps its ProxyInfo
add_proxy(ps, url) ==
    IF ProxyIndex(ps, url) # 0 THEN ps ELSE Append(ps, NewProxy(url))

AddProxy(url) ==
    /\ proxies' = add_proxy(proxies, url)
    /\ UNCHANGED <<now, ticks, probing, check_task, relayVars, clientVars>>

\* remove_proxy(proxy_url); a probe in flight keeps its detached ProxyInfo,
\* which nothing reads any more
RemoveProxy(url) ==
    /\ proxies' = SelectSeq(proxies, LAMBDA p : p.url # url)
    /\ probing' = {e \in probing : e.url # url}
    /\ UNCHANGED <<now, ticks, check_task, relayVars, clientVars>>

\* _health_check_loop: _check_all_proxies has returned (gather has awaited
\* every probe of the round), the loop sleeps check_interval and comes
\* round again
ProxyTickInterval ==
    /\ ticks < MaxProxyTicks
    /\ probing = {}
    /\ now' = now + check_interval + 1
    /\ ticks' = ticks + 1
    /\ UNCHANGED <<relayVars, proxyVars, clientVars>>

\* ProxyManager(["p1", "p2"]); the clock reads more than check_interval
InitProxy ==
    /\ now = check_interval + 1
    /\ ticks = 0
    /\ parsers = <<>>
    /\ InitParseIdle
    /\ proxies = <<NewProxy("p1"), NewProxy("p2")>>
    /\ probing = {}
    /\ check_task = <<>>
    /\ InitClientIdle

NextProxy ==
    \/ \E url \in ProxyUrls : ProbeStart(url)
    \/ \E e \in probing, ok \in BOOLEAN : ProbeEnd(e, ok)
    \/ \E url \in ProxyUrls : MarkProxyBanned(url)
    \/ \E url \in ProxyUrls : MarkProxyFailed(url)
    \/ \E url \in ProxyUrls : ResetProxy(url)
    \/ \E url \in ProxyUrls : AddProxy(url)
    \/ \E url \in ProxyUrls : RemoveProxy(url)
    \/ ProxyTickInterval

SpecProxy == InitProxy /\ [][NextProxy]_vars

----------------------------------------------------------------------------
(* The health-check task of the ProxyManager: start_health_check,          *)
(* stop_health_check (called by HTTPClient.close) and _health_check_loop.  *)
(* check_task.tasks are the loop tasks ever created, check_task.handle is  *)
(* self.check_task (0 for None).  A round starts the probes of all due     *)
(* proxies at once; they end one by one (ProbeEnd).  stopped and refused   *)
(* are history fields: stop_health_check has returned and no start came    *)
(* after it; a start found a loop running.  cancel_caught is the build:    *)
(* whether CancelledError is an Exception (Python 3.7) or not (3.8 on).    *)

NewCheckTask(cancel_caught) ==
    [tasks |-> <<>>, handle |-> 0, stopper |-> "idle", stopped |-> FALSE,
     refused |-> FALSE, cancel_caught |-> cancel_caught]

\* the loop tasks that are not done
AliveLoops == {t \in 1..Len(check_task.tasks) : check_task.tasks[t].pc # "done"}

\* start_health_check(): a task is created when there is none or it is done
StartHealthCheck ==
    /\ Len(check_task.tasks) < MaxLoopTasks
    /\ IF check_task.handle = 0 \/ check_task.tasks[check_task.handle].pc = "done"
       THEN check_task' = [check_task EXCEPT
                               !.tasks = Append(@, [pc |-> "pending", cancel |-> FALSE,
                                                    wake |-> 0]),
                               !.handle = Len(check_task.tasks) + 1,
                               !.stopped = FALSE]
       ELSE check_task' = [check_task EXCEPT !.stopped = FALSE, !.refused = TRUE]
    /\ UNCHANGED <<now, ticks, proxies, probing, relayVars, clientVars>>

\* _health_check_loop enters _check_all_proxies: the proxies whose last
\* check is older than check_interval are probed, gather awaits the
\* probes; without such a proxy the loop sleeps at once
LoopRound(t) ==
    /\ t \in 1..Len(check_task.tasks)
    /\ ~check_task.tasks[t].cancel
    /\ \/ check_task.tasks[t].pc = "pending"
       \/ check_task.tasks[t].pc = "sleep" /\ now >= check_task.tasks[t].wake
    /\ LET due == {i \in 1..Len(proxies) : now - proxies[i].last_check > check_interval}
       IN  /\ proxies' = [i \in 1..Len(proxies) |->
                              IF i \in due
                              THEN [proxies[i] EXCEPT !.status = "CHECKING",
                                                      !.last_check = now]
                              ELSE proxies[i]]
           /\ probing' = probing \cup {[url |-> proxies[i].url, start_time |-> now] :
                                           i \in due}
           /\ check_task' = [check_task EXCEPT
                                 !.tasks[t].pc = IF due = {} THEN "sleep" ELSE "gather",
                                 !.tasks[t].wake = now + check_interval]
    /\ UNCHANGED <<now, ticks, relayVars, clientVars>>

\* gather has every probe of the round: the loop sleeps check_interval
GatherDone(t) ==
    /\ t \in 1..Len(check_task.tasks)
    /\ check_task.tasks[t].pc = "gather"
    /\ ~check_task.tasks[t].cancel
    /\ probing = {}
    /\ check_task' = [check_task EXCEPT !.tasks[t].pc = "sleep",
                                        !.tasks[t].wake = now + check_interval]
    /\ UNCHANGED <<now, ticks, proxies, probing, relayVars, clientVars>>

\* time passes until just after the sleep of a loop is over
HealthTick ==
    /\ ticks < MaxHealthTicks
    /\ probing = {}
    /\ \E t \in 1..Len(check_task.tasks) :
           /\ check_task.tasks[t].pc = "sleep"
           /\ check_task.tasks[t].wake >= now
           /\ now' = check_task.tasks[t].wake + 1
    /\ ticks' = ticks + 1
    /\ UNCHANGED <<relayVars, proxyVars, clientVars>>

\* stop_health_check() up to its await: the task is cancelled; without a
\* task that is alive the call returns at once
StopHealthCheck ==
    /\ check_task.stopper = "idle"
    /\ IF check_task.handle # 0 /\ check_task.tasks[check_task.handle].pc # "done"
       THEN check_task' = [check_task EXCEPT
                               !.tasks[check_task.handle].cancel = TRUE,
                               !.stopper = "await"]
       ELSE check_task' = [check_task EXCEPT !.stopped = TRUE]
    /\ UNCHANGED <<now, ticks, proxies, probing, relayVars, clientVars>>

\* the CancelledError reaches the loop task where it is suspended.  In
\* gather the probes in flight are cancelled first: their CancelledError
\* passes `except Exception` of _check_proxy, or is caught by it where
\* CancelledError is an Exception; then the loop breaks
CancelDelivered(t) ==
    /\ t \in 1..Len(check_task.tasks)
    /\ check_task.tasks[t].cancel
    /\ check_task.tasks[t].pc # "done"
    /\ IF check_task.tasks[t].pc = "gather"
       THEN /\ proxies' = [i \in 1..Len(proxies) |->
                               IF /\ check_task.cancel_caught
                                  /\ \E e \in probing : e.url = proxies[i].url
                               THEN probe_failed(proxies[i],
                                        now - (CHOOSE e \in probing :
                                                   e.url = proxies[i].url).start_time)
                               ELSE proxies[i]]
            /\ probing' = {}
       ELSE UNCHANGED <<proxies, probing>>
    /\ check_task' = [check_task EXCEPT !.tasks[t].pc = "done"]
    /\ UNCHANGED <<now, ticks, relayVars, clientVars>>

\* variant: stop_health_check does not await the task it cancelled
stop_returns_at_once(task) == TRUE

\* stop_health_check, `await self.check_task`: over when the task is done
stop_returns(task) == task.pc = "done"

\* stop_health_check() returns to its caller (HTTPClient.close)
StopReturn ==
    /\ check_task.stopper = "await"
    /\ stop_returns(check_task.tasks[check_task.handle])
    /\ check_task' = [check_task EXCEPT !.stopper = "idle", !.stopped = TRUE]
    /\ UNCHANGED <<now, ticks, proxies, probing, relayVars, clientVars>>

\* ProxyManager(["p1", "p2"]): no task yet
InitHealth ==
    /\ now = check_interval + 1
    /\ ticks = 0
    /\ parsers = <<>>
    /\ InitParseIdle
    /\ proxies = <<NewProxy("p1"), NewProxy("p2")>>
    /\ probing = {}
    /\ \E cancel_caught \in BOOLEAN : check_task = NewCheckTask(cancel_caught)
    /\ InitClientIdle

NextHealth ==
    \/ StartHealthCheck
    \/ \E t \in 1..MaxLoopTasks : LoopRound(t)
    \/ \E e \in probing, ok \in BOOLEAN : ProbeEnd(e, ok)
    \/ \E t \in 1..MaxLoopTasks : GatherDone(t)
    \/ HealthTick
    \/ StopHealthCheck
    \/ \E t \in 1..MaxLoopTasks : CancelDelivered(t)
    \/ StopReturn

SpecHealth == InitHealth /\ [][NextHealth]_vars

----------------------------------------------------------------------------
(* Selection runs: a pool of four proxies, each probed in the first round  *)
(* of the health check, with bans reported meanwhile                       *)

SelectUrls == {"p1", "p2", "p3", "p4"}

\* one second passes while probes wait for their responses
ProbeTick ==
    /\ ticks < MaxSelectTicks
    /\ probing # {}
    /\ now' = now + 1
    /\ ticks' = ticks + 1
    /\ UNCHANGED <<relayVars, proxyVars, clientVars>>

\* ProxyManager(["p1", "p2", "p3", "p4"])
InitSelect ==
    /\ now = check_interval + 1
    /\ ticks = 0
    /\ parsers = <<>>
    /\ InitParseIdle
    /\ proxies = <<NewProxy("p1"), NewProxy("p2"), NewProxy("p3"), NewProxy("p4")>>
    /\ probing = {}
    /\ check_task = <<>>
    /\ InitClientIdle

NextSelect ==
    \/ \E url \in SelectUrls : ProbeStart(url)
    \/ \E e \in probing, ok \in BOOLEAN : ProbeEnd(e, ok)
    \/ \E url \in SelectUrls : MarkProxyBanned(url)
    \/ ProbeTick

SpecSelect == InitSelect /\ [][NextSelect]_vars


----------------------------------------------------------------------------
(* RateLimiter and AdaptiveRateLimiter.                                    *)
(* Units: clock in milliseconds; rate, tokens and backoff_factor in        *)
(* thousandths.  A refill is rounded down to a thousandth of a token, and  *)
(* a sleep ends at the first whole millisecond not before its deadline.    *)

\* one token, and the factor 1.0
OneToken == 10 ^ 3
UnitFactor == 10 ^ 3

\* requests_per_second values a limiter is built with: 0.5, 1.0, 2.0
Rates == {500, 1000, 2000}

\* coroutines that share the limiter
Callers == {"c1", "c2"}

\* RateLimiter(requests_per_second), constructed when the clock reads t;
\* decays is a history field: the times acquire() lowered backoff_factor
NewLimiter(requests_per_second, t) ==
    [rate |-> requests_per_second,
     tokens |-> requests_per_second,
     last_update |-> t,
     backoff_factor |-> UnitFactor,
     total_requests |-> 0, blocked_requests |-> 0, backoff_events |-> 0,
     decays |-> 0]

\* acquire, lines 46-51 and 68-71: the bucket is refilled up to rate tokens
refill(l, t) ==
    [l EXCEPT !.last_update = t,
              !.tokens = Min(l.rate, l.tokens
                                         + ((t - l.last_update) * l.rate) \div 1000)]

\* acquire, line 62: wait_time in milliseconds, rounded up
wait_time(l) ==
    LET num == (OneToken - l.tokens) * l.backoff_factor
    IN (num + l.rate - 1) \div l.rate

\* acquire, lines 53-58: a token is there and is consumed
take_token(l) ==
    [l EXCEPT !.tokens = @ - OneToken,
              !.backoff_factor = IF @ > UnitFactor
                                 THEN Max(UnitFactor, (@ * 9) \div 10) ELSE @,
              !.decays = IF l.backoff_factor > UnitFactor THEN @ + 1 ELSE @]

\* variant: every call counts as a backoff event
set_backoff_always_counts(l, factor) ==
    [l EXCEPT !.backoff_factor = Min(max_backoff * UnitFactor,
                                     (@ * factor) \div UnitFactor),
              !.backoff_events = @ + 1]

\* set_backoff(factor), factor in thousandths
set_backoff(l, factor) ==
    LET new == Min(max_backoff * UnitFactor,
                   (l.backoff_factor * factor) \div UnitFactor) IN
    [l EXCEPT !.backoff_factor = new,
              !.backoff_events = IF new > l.backoff_factor THEN @ + 1 ELSE @]

\* trigger_exponential_backoff(): set_backoff(2.0)
trigger_exponential_backoff(l) == set_backoff(l, 2 * UnitFactor)

\* reset_backoff(): only a factor above 1.0 is reset
reset_backoff(l) ==
    IF l.backoff_factor > UnitFactor THEN [l EXCEPT !.backoff_factor = UnitFactor]
    ELSE l

\* variant: the tokens are rescaled whichever way the rate changes
update_rate_always_rescales(l, new_rate) ==
    [l EXCEPT !.rate = new_rate,
              !.tokens = Min(new_rate, (@ * new_rate) \div l.rate)]

\* update_rate(new_rate)
update_rate(l, new_rate) ==
    [l EXCEPT !.rate = new_rate,
              !.tokens = IF new_rate > l.rate
                         THEN Min(new_rate, (@ * new_rate) \div l.rate)
                         ELSE Min(new_rate, @)]

IdleCallers == [c \in Callers |-> [pc |-> "idle", wake |-> 0]]

\* acquire() up to its return or its sleep
AcquireCall(c) ==
    /\ callers[c].pc = "idle"
    /\ limiter.total_requests < MaxAcquires
    /\ limiter.backoff_factor > UnitFactor => limiter.decays < MaxDecays
    /\ LET l == refill([limiter EXCEPT !.total_requests = @ + 1], clock) IN
       IF l.tokens >= OneToken
       THEN /\ limiter' = take_token(l)
            /\ issued' = Append(issued, [by |-> c, at |-> clock])
            /\ callers' = callers
       ELSE /\ limiter' = [l EXCEPT !.blocked_requests = @ + 1]
            /\ callers' = [callers EXCEPT ![c] = [pc |-> "sleep",
                                                  wake |-> clock + wait_time(l)]]
            /\ issued' = issued
    /\ UNCHANGED <<now, ticks, clock, fetch, engineVars, relayVars,
                   proxyVars>>

\* acquire() from the end of its sleep to its return
AcquireWake(c) ==
    /\ callers[c].pc = "sleep"
    /\ clock >= callers[c].wake
    /\ limiter' = [refill(limiter, clock) EXCEPT !.tokens = @ - OneToken]
    /\ callers' = [callers EXCEPT ![c] = [pc |-> "idle", wake |-> 0]]
    /\ issued' = Append(issued, [by |-> c, at |-> clock])
    /\ UNCHANGED <<now, ticks, clock, fetch, engineVars, relayVars,
                   proxyVars>>

\* time passes until a sleeping caller is due
SleepPasses ==
    /\ \E c \in Callers :
           /\ callers[c].pc = "sleep"
           /\ callers[c].wake > clock
           /\ clock' = callers[c].wake
    /\ UNCHANGED <<now, ticks, limiter, callers, issued, fetch, engineVars, relayVars,
                   proxyVars>>

\* time passes while no caller is inside acquire()
IdlePasses ==
    /\ ticks < MaxIdleTicks
    /\ \A c \in Callers : callers[c].pc = "idle"
    /\ clock' = clock + IdleStep
    /\ ticks' = ticks + 1
    /\ UNCHANGED <<now, limiter, callers, issued, fetch, engineVars, relayVars,
                   proxyVars>>

\* trigger_exponential_backoff() called by an error handler
TriggerBackoff ==
    /\ limiter.backoff_events < MaxBackoffEvents
    /\ limiter' = trigger_exponential_backoff(limiter)
    /\ UNCHANGED <<now, ticks, clock, callers, issued, fetch, engineVars, relayVars,
                   proxyVars>>

\* reset_backoff()
ResetBackoff ==
    /\ limiter.backoff_factor > UnitFactor
    /\ limiter' = reset_backoff(limiter)
    /\ UNCHANGED <<now, ticks, clock, callers, issued, fetch, engineVars, relayVars,
                   proxyVars>>

\* RateLimiter(rate) for one of the rates, no caller inside acquire()
InitLimiter ==
    /\ now = 0
    /\ ticks = 0
    /\ parsers = <<>>
    /\ InitParseIdle
    /\ InitProxyIdle
    /\ clock = 0
    /\ \E r \in Rates : limiter = NewLimiter(r, 0)
    /\ callers = IdleCallers
    /\ issued = <<>>
    /\ fetch = <<>>
    /\ InitEngineIdle

\* pacing runs: the callers share the limiter, nothing triggers a backoff
NextLimiter ==
    \/ \E c \in Callers : AcquireCall(c)
    \/ \E c \in Callers : AcquireWake(c)
    \/ SleepPasses
    \/ IdlePasses

SpecLimiter == InitLimiter /\ [][NextLimiter]_vars

\* backoff runs: one caller, and error handlers that trigger and reset the
\* backoff
NextBackoff ==
    \/ AcquireCall("c1")
    \/ AcquireWake("c1")
    \/ SleepPasses
    \/ TriggerBackoff
    \/ ResetBackoff

SpecBackoff == InitLimiter /\ [][NextBackoff]_vars

(* The limiter in the hands of a caller that tunes it: update_rate,       *)
(* set_backoff and reset_backoff with arguments of the caller.  `returned` *)
(* keeps the last of these calls: its argument and the limiter before and  *)
(* after it.                                                               *)

\* factors given to set_backoff: 0.5, 2.0, 3.0
Factors == {UnitFactor \div 2, 2 * UnitFactor, 3 * UnitFactor}

Tuned(op, arg, before, after) ==
    [op |-> op, arg |-> arg, before |-> before, after |-> after,
     calls |-> returned.calls + 1]

\* limiter.update_rate(new_rate)
UpdateRate(new_rate) ==
    /\ returned.calls < MaxRateUpdates
    /\ limiter' = update_rate(limiter, new_rate)
    /\ returned' = Tuned("update_rate", new_rate, limiter, limiter')
    /\ UNCHANGED <<now, ticks, clock, callers, issued, fetch, svip, batch,
                   stats_file, relayVars, proxyVars>>

\* limiter.set_backoff(factor)
SetBackoff(factor) ==
    /\ returned.calls < MaxFactorCalls
    /\ limiter' = set_backoff(limiter, factor)
    /\ returned' = Tuned("set_backoff", factor, limiter, limiter')
    /\ UNCHANGED <<now, ticks, clock, callers, issued, fetch, svip, batch,
                   stats_file, relayVars, proxyVars>>

\* limiter.reset_backoff(), whatever the factor is
ResetBackoffCall ==
    /\ returned.calls < MaxFactorCalls
    /\ limiter' = reset_backoff(limiter)
    /\ returned' = Tuned("reset_backoff", 0, limiter, limiter')
    /\ UNCHANGED <<now, ticks, clock, callers, issued, fetch, svip, batch,
                   stats_file, relayVars, proxyVars>>

InitTuning ==
    /\ now = 0
    /\ ticks = 0
    /\ parsers = <<>>
    /\ InitParseIdle
    /\ InitProxyIdle
    /\ clock = 0
    /\ \E r \in Rates : limiter = NewLimiter(r, 0)
    /\ callers = IdleCallers
    /\ issued = <<>>
    /\ fetch = <<>>
    /\ svip = <<>>
    /\ batch = <<>>
    /\ stats_file = None
    /\ returned = [op |-> "init", arg |-> 0, before |-> limiter, after |-> limiter,
                   calls |-> 0]

\* the callers share the limiter while its rate is updated
NextRates ==
    \/ \E c \in Callers :
           /\ limiter.total_requests < MaxRateAcquires
           /\ AcquireCall(c)
    \/ \E c \in Callers : AcquireWake(c)
    \/ SleepPasses
    \/ IdlePasses
    \/ \E new_rate \in Rates : UpdateRate(new_rate)

SpecRates == InitTuning /\ [][NextRates]_vars

\* one caller, and a user of the limiter that sets, triggers and resets
\* the backoff
NextFactor ==
    \/ AcquireCall("c1")
    \/ AcquireWake("c1")
    \/ SleepPasses
    \/ \E factor \in Factors : SetBackoff(factor)
    \/ /\ limiter.backoff_events < MaxFactorCalls
       /\ TriggerBackoff
    \/ ResetBackoffCall

SpecFactor == InitTuning /\ [][NextFactor]_vars

(* AdaptiveRateLimiter(RateLimiter) *)

\* the defaults of min_rate and max_rate: 0.1 and 10.0
min_rate == 10 ^ 2
max_rate == 10 ^ 4

\* self.adjustment_threshold
adjustment_threshold == 10

\* initial_rate values an adaptive limiter is built with: 0.125, 2.0, 9.0.
\* From these the products by 1.2 and 0.8 are whole thousandths for the
\* first three decisions, so no rounding enters the runs.
InitialRates == {125, 2000, 9000}

\* AdaptiveRateLimiter(initial_rate); decisions is a history field: the
\* times _check_adjustment reached its threshold
NewAdaptiveLimiter(initial_rate, t) ==
    [rate |-> initial_rate,
     tokens |-> initial_rate,
     last_update |-> t,
     backoff_factor |-> UnitFactor,
     total_requests |-> 0, blocked_requests |-> 0, backoff_events |-> 0,
     decays |-> 0,
     min_rate |-> min_rate, max_rate |-> max_rate,
     success_count |-> 0, failure_count |-> 0,
     decisions |-> 0]

\* variant: the new rate is not held within min_rate and max_rate
check_adjustment_unclamped(l) ==
    LET total_requests == l.success_count + l.failure_count IN
    IF total_requests >= adjustment_threshold
    THEN LET new_rate ==
                 IF l.success_count * 10 > 9 * total_requests
                 THEN (l.rate * 12) \div 10
                 ELSE IF l.success_count * 10 < 7 * total_requests
                 THEN (l.rate * 8) \div 10
                 ELSE l.rate
             adjusted == IF new_rate # l.rate THEN update_rate(l, new_rate) ELSE l
         IN [adjusted EXCEPT !.success_count = 0, !.failure_count = 0,
                             !.decisions = @ + 1]
    ELSE l

\* variant: a success rate of 0.9 already raises the rate
check_adjustment_at_nine_tenths(l) ==
    LET total_requests == l.success_count + l.failure_count IN
    IF total_requests >= adjustment_threshold
    THEN LET new_rate ==
                 IF l.success_count * 10 >= 9 * total_requests
                 THEN Min(l.max_rate, (l.rate * 12) \div 10)
                 ELSE IF l.success_count * 10 < 7 * total_requests
                 THEN Max(l.min_rate, (l.rate * 8) \div 10)
                 ELSE l.rate
             adjusted == IF new_rate # l.rate THEN update_rate(l, new_rate) ELSE l
         IN [adjusted EXCEPT !.success_count = 0, !.failure_count = 0,
                             !.decisions = @ + 1]
    ELSE l

\* _check_adjustment(); success_rate > 0.9 and success_rate < 0.7 are
\* compared as fractions
check_adjustment(l) ==
    LET total_requests == l.success_count + l.failure_count IN
    IF total_requests >= adjustment_threshold
    THEN LET new_rate ==
                 IF l.success_count * 10 > 9 * total_requests
                 THEN Min(l.max_rate, (l.rate * 12) \div 10)
                 ELSE IF l.success_count * 10 < 7 * total_requests
                 THEN Max(l.min_rate, (l.rate * 8) \div 10)
                 ELSE l.rate
             adjusted == IF new_rate # l.rate THEN update_rate(l, new_rate) ELSE l
         IN [adjusted EXCEPT !.success_count = 0, !.failure_count = 0,
                             !.decisions = @ + 1]
    ELSE l

\* AdaptiveRateLimiter.record_success()
adaptive_record_success(l) ==
    check_adjustment([l EXCEPT !.success_count = @ + 1])

\* AdaptiveRateLimiter.record_failure()
adaptive_record_failure(l) ==
    check_adjustment([l EXCEPT !.failure_count = @ + 1])

AdaptiveRecordSuccess ==
    /\ limiter.decisions < MaxDecisions
    /\ limiter' = adaptive_record_success(limiter)
    /\ UNCHANGED <<now, ticks, clock, callers, issued, fetch, engineVars, relayVars,
                   proxyVars>>

AdaptiveRecordFailure ==
    /\ limiter.decisions < MaxDecisions
    /\ limiter' = adaptive_record_failure(limiter)
    /\ UNCHANGED <<now, ticks, clock, callers, issued, fetch, engineVars, relayVars,
                   proxyVars>>

\* AdaptiveRateLimiter(initial_rate) for one of the initial rates
InitAdaptive ==
    /\ now = 0
    /\ ticks = 0
    /\ parsers = <<>>
    /\ InitParseIdle
    /\ InitProxyIdle
    /\ clock = 0
    /\ \E r \in InitialRates : limiter = NewAdaptiveLimiter(r, 0)
    /\ callers = IdleCallers
    /\ issued = <<>>
    /\ fetch = <<>>
    /\ InitEngineIdle

NextAdaptive ==
    \/ AdaptiveRecordSuccess
    \/ AdaptiveRecordFailure

SpecAdaptive == InitAdaptive /\ [][NextAdaptive]_vars

----------------------------------------------------------------------------
(* HTTPClient.get, with the ProxyManager of the client and the RateLimiter *)
(* of the scraper that calls it.  Time is not followed in these runs: the  *)
(* pauses of _apply_rate_limit and of the backoff change no other state.   *)

\* status codes a server may answer with
Statuses == {200, 204, 403, 404, 408, 429, 500, 503}

\* what one transport attempt can end in: a response (its status, and
\* whether its body holds one of the block-page phrases), or an exception
\* raised by session.get or response.text()
Responses == [kind : {"response"}, status : Statuses, block : BOOLEAN]
Exceptions == {[kind |-> k, status |-> 0, block |-> FALSE] :
                   k \in {"timeout", "client_error", "other_error"}}
AttemptOutcomes == Responses \cup Exceptions

\* detect_ip_ban(response_text, status_code)
detect_ip_ban(o) == o.status \in {403, 429, 503} \/ o.block

\* variant: every client error is retried as well
should_retry_client_errors(retries, status, attempt) ==
    IF attempt >= retries THEN FALSE
    ELSE 400 <= status /\ status < 600

\* _should_retry(status_code, attempt) of a client whose
\* config.max_retries is retries
should_retry_with(retries, status, attempt) ==
    IF attempt >= retries THEN FALSE
    ELSE IF 500 <= status /\ status < 600 THEN TRUE
    ELSE IF status = 429 THEN TRUE
    ELSE IF status = 408 THEN TRUE
    ELSE FALSE

\* variant: the last retry is given up
should_retry_one_less(status, attempt) ==
    IF attempt + 1 >= max_retries THEN FALSE
    ELSE (500 <= status /\ status < 600) \/ status = 429 \/ status = 408

\* _should_retry(status_code, attempt) with the default max_retries
should_retry(status, attempt) == should_retry_with(max_retries, status, attempt)

\* variant: the delay is not capped
calculate_backoff_delay_uncapped(attempt, status, jitter) ==
    LET base_delay == IF status = 429 THEN 2000
                      ELSE IF 500 <= status /\ status < 600 THEN 1500
                      ELSE 1000
    IN  base_delay * (2 ^ attempt) + jitter

\* _calculate_backoff_delay(attempt, status_code) in milliseconds; jitter
\* is the value of random.uniform(0, 1)
calculate_backoff_delay(attempt, status, jitter) ==
    LET base_delay == IF status = 429 THEN 2000
                      ELSE IF 500 <= status /\ status < 600 THEN 1500
                      ELSE 1000
        delay == base_delay * (2 ^ attempt) + jitter
    IN  Min(delay, 60000)

\* HTTPClient(config): its counters, and no get() under way.  attempts,
\* ban_seen and last are history fields: the transport attempts issued by
\* the call, the proxies on which the call detected a ban, and the way its
\* last attempt ended ("ok", "retryable", "final")
NewClient ==
    [pc |-> "idle", proxy |-> None, attempt |-> 0, result |-> "none",
     request_count |-> 0, success_count |-> 0, error_count |-> 0,
     attempts |-> 0, ban_seen |-> {}, last |-> "none"]

\* the way an attempt ended, as the retry contract classes it
OutcomeClass(o) ==
    IF o.kind = "response"
    THEN IF o.status = 200 THEN "ok"
         ELSE IF o.status \in {408, 429} \/ (500 <= o.status /\ o.status < 600)
         THEN "retryable" ELSE "final"
    ELSE IF o.kind \in {"timeout", "client_error"} THEN "retryable" ELSE "final"

\* get(url) up to the first session.get: the proxy is selected once, before
\* the retry loop
FetchCall ==
    /\ fetch.pc = "idle"
    /\ fetch.request_count < MaxFetches
    /\ \E proxy \in get_active_proxy :
           fetch' = [fetch EXCEPT !.pc = "await_get", !.proxy = proxy,
                                  !.attempt = 0, !.result = "none",
                                  !.request_count = @ + 1,
                                  !.attempts = 1, !.ban_seen = {}, !.last = "none"]
    /\ UNCHANGED <<now, ticks, relayVars, proxyVars, limiterVars, engineVars>>

\* lines 196-200: status 200
OnStatus200 ==
    /\ fetch' = [fetch EXCEPT !.pc = "returned", !.result = "response",
                              !.success_count = @ + 1, !.last = "ok"]
    /\ proxies' = proxies

\* lines 202-215: any other status
OnOtherStatus(o) ==
    LET banned == fetch.proxy # None /\ detect_ip_ban(o) IN
    /\ proxies' = IF banned THEN mark_proxy_banned(proxies, The(fetch.proxy))
                  ELSE proxies
    /\ fetch' =
           IF should_retry(o.status, fetch.attempt)
           THEN [fetch EXCEPT !.pc = "sleep", !.last = OutcomeClass(o),
                              !.ban_seen = IF banned THEN @ \cup fetch.proxy ELSE @]
           ELSE [fetch EXCEPT !.pc = "returned", !.result = "None",
                              !.error_count = @ + 1, !.last = OutcomeClass(o),
                              !.ban_seen = IF banned THEN @ \cup fetch.proxy ELSE @]

\* lines 217-223: asyncio.TimeoutError
OnTimeout(o) ==
    /\ proxies' = proxies
    /\ fetch' =
           IF fetch.attempt < max_retries
           THEN [fetch EXCEPT !.pc = "sleep", !.last = OutcomeClass(o)]
           ELSE [fetch EXCEPT !.pc = "returned", !.result = "None",
                              !.error_count = @ + 1, !.last = OutcomeClass(o)]

\* lines 225-236: aiohttp.ClientError
OnClientError(o) ==
    /\ proxies' = IF fetch.proxy # None
                  THEN mark_proxy_failed(proxies, The(fetch.proxy)) ELSE proxies
    /\ fetch' =
           IF fetch.attempt < max_retries
           THEN [fetch EXCEPT !.pc = "sleep", !.last = OutcomeClass(o)]
           ELSE [fetch EXCEPT !.pc = "returned", !.result = "None",
                              !.error_count = @ + 1, !.last = OutcomeClass(o)]

\* lines 238-244: any other exception ends the loop
OnOtherError(o) ==
    /\ proxies' = proxies
    /\ fetch' = [fetch EXCEPT !.pc = "returned", !.result = "None",
                              !.error_count = @ + 1, !.last = OutcomeClass(o)]

\* session.get of the current attempt ends in o; the loop body up to the
\* next suspension or the return
FetchResponse(o) ==
    /\ fetch.pc = "await_get"
    /\ CASE o.kind = "response" /\ o.status = 200 -> OnStatus200
         [] o.kind = "response" /\ o.status # 200 -> OnOtherStatus(o)
         [] o.kind = "timeout" -> OnTimeout(o)
         [] o.kind = "client_error" -> OnClientError(o)
         [] o.kind = "other_error" -> OnOtherError(o)
    /\ UNCHANGED <<now, ticks, relayVars, probing, check_task, limiterVars, engineVars>>

\* the backoff sleep is over: the next attempt is issued, through the proxy
\* selected at the call
FetchSleepDone ==
    /\ fetch.pc = "sleep"
    /\ fetch' = [fetch EXCEPT !.pc = "await_get", !.attempt = @ + 1,
                              !.attempts = @ + 1]
    /\ UNCHANGED <<now, ticks, relayVars, proxyVars, limiterVars, engineVars>>

\* ScraperEngine._fetch_page_content takes what get() returned: None makes
\* it raise, and _handle_network_error triggers the limiter's backoff
FetchReturn ==
    /\ fetch.pc = "returned"
    /\ fetch' = [fetch EXCEPT !.pc = "idle"]
    /\ limiter' = IF fetch.result = "None"
                  THEN trigger_exponential_backoff(limiter) ELSE limiter
    /\ UNCHANGED <<now, ticks, relayVars, proxyVars, clock, callers, issued,
                   engineVars>>

\* ScraperEngine(config) with two proxies configured: HTTPClient(config),
\* ProxyManager(config.proxies), RateLimiter(config.rate_limit)
InitFetch ==
    /\ now = 0
    /\ ticks = 0
    /\ parsers = <<>>
    /\ InitParseIdle
    /\ proxies = <<NewProxy("p1"), NewProxy("p2")>>
    /\ probing = {}
    /\ check_task = <<>>
    /\ clock = 0
    /\ limiter = NewLimiter(rate_limit, 0)
    /\ callers = IdleCallers
    /\ issued = <<>>
    /\ fetch = NewClient
    /\ InitEngineIdle

NextFetch ==
    \/ FetchCall
    \/ \E o \in AttemptOutcomes : FetchResponse(o)
    \/ FetchSleepDone
    \/ FetchReturn
    \/ \E url \in ProxyUrls : ResetProxy(url)

SpecFetch == InitFetch /\ [][NextFetch]_vars

\* every attempt ends (the session has a total timeout, so session.get
\* returns a response or raises) and every backoff sleep ends
FetchFairness ==
    /\ WF_vars(\E o \in AttemptOutcomes : FetchResponse(o))
    /\ WF_vars(FetchSleepDone)

SpecFetchLive == SpecFetch /\ FetchFairness

----------------------------------------------------------------------------
(* Registration: add_parser, remove_parser and the entries of a custom     *)
(* config file on the relay pool, add_proxy and remove_proxy on the proxy  *)
(* pool.  An url_template is the sequence of its pieces, "{url}" being one *)
(* piece; a key a config entry lacks is None.                              *)

\* the template every entry of DEFAULT_PARSERS is given here
DefaultTemplate == <<"https://jx.x/?url=", "{url}">>

UrlTemplates ==
    {DefaultTemplate, <<"https://jx.y/?v=", "{url}", "&t=1">>,
     <<"https://jx.x/?url=", "{URL}">>}

ResponseTypes == {"json", "html", "xml"}

\* names passed to add_parser and found in config files: a default one and
\* a new one
CustomNames == {"A", "X"}

\* the entries a "custom_parsers" list may hold
ConfigEntries ==
    [name : {None} \cup {Some(n) : n \in CustomNames},
     url_template : {None} \cup {Some(t) : t \in UrlTemplates \ {DefaultTemplate}},
     response_type : {None, Some("json"), Some("xml")},
     enabled : {None}]

\* ParserInterface(name=, url_template=, response_type=, enabled=)
ParserInterface(name, url_template, response_type, enabled) ==
    [NewParser(name) EXCEPT !.enabled = enabled]
        @@ [url_template |-> url_template, response_type |-> response_type]

\* "{url}" in url_template
HasPlaceholder(url_template) ==
    \E i \in 1..Len(url_template) : url_template[i] = "{url}"

\* parser_data.get(key, default)
GetOr(field, default) == IF field = None THEN default ELSE The(field)

\* variant: the placeholder is not looked for
validate_parser_config_any_template(parser_data) ==
    /\ parser_data.name # None
    /\ parser_data.url_template # None
    /\ GetOr(parser_data.response_type, "html") \in {"json", "html"}

\* _validate_parser_config(parser_data)
validate_parser_config(parser_data) ==
    /\ parser_data.name # None
    /\ parser_data.url_template # None
    /\ HasPlaceholder(The(parser_data.url_template))
    /\ GetOr(parser_data.response_type, "html") \in {"json", "html"}

\* variant: a name that is in the pool is added once more
add_parser_again(ps, name, url_template, response_type) ==
    LET config == [name |-> Some(name), url_template |-> Some(url_template),
                   response_type |-> Some(response_type), enabled |-> None] IN
    IF ~validate_parser_config(config)
    THEN [parsers |-> ps, value |-> FALSE]
    ELSE [parsers |-> Append(ps, ParserInterface(name, url_template,
                                                 response_type, TRUE)),
          value |-> TRUE]

\* add_parser(name, url_template, response_type): the pool afterwards and
\* the value returned
add_parser(ps, name, url_template, response_type) ==
    LET config == [name |-> Some(name), url_template |-> Some(url_template),
                   response_type |-> Some(response_type), enabled |-> None] IN
    IF ~validate_parser_config(config)
    THEN [parsers |-> ps, value |-> FALSE]
    ELSE IF get_parser_by_name(ps, name) # 0
    THEN [parsers |-> ps, value |-> FALSE]
    ELSE [parsers |-> Append(ps, ParserInterface(name, url_template,
                                                 response_type, TRUE)),
          value |-> TRUE]

\* remove_parser(name): list.remove takes out the first parser equal to the
\* one found, which is the one found
remove_parser(ps, name) ==
    LET i == get_parser_by_name(ps, name) IN
    IF i # 0
    THEN [parsers |-> SubSeq(ps, 1, i - 1) \o SubSeq(ps, i + 1, Len(ps)),
          value |-> TRUE]
    ELSE [parsers |-> ps, value |-> FALSE]

\* _load_custom_parsers: the body of its loop for one entry of the file
load_custom_parser(ps, parser_data) ==
    IF ~validate_parser_config(parser_data) THEN ps
    ELSE LET name == The(parser_data.name)
             i == get_parser_by_name(ps, name)
             url_template == The(parser_data.url_template)
             response_type == GetOr(parser_data.response_type, "html")
             enabled == GetOr(parser_data.enabled, TRUE)
         IN IF i # 0
            THEN [ps EXCEPT ![i].url_template = url_template,
                            ![i].response_type = response_type,
                            ![i].enabled = enabled]
            ELSE Append(ps, ParserInterface(name, url_template, response_type,
                                            enabled))

\* the record of a management call: the call, the entry it was given, the
\* value it returned (for a loaded entry: whether it was taken in) and
\* whether the pool is another than before
Returned(op, entry, value, changed) ==
    [op |-> op, entry |-> entry, value |-> value, changed |-> changed]

AddParser(name, url_template, response_type) ==
    LET r == add_parser(parsers, name, url_template, response_type) IN
    /\ parsers' = r.parsers
    /\ returned' = Returned("add_parser",
                            [name |-> Some(name), url_template |-> Some(url_template),
                             response_type |-> Some(response_type),
                             enabled |-> None],
                            r.value, r.parsers # parsers)
    /\ UNCHANGED <<now, ticks, pc, video_url, sorted_parsers, idx, start_time,
                   result, attempted, recS, recF, proxyVars, limiterVars, fetch,
                   svip, batch, stats_file>>

RemoveParser(name) ==
    LET r == remove_parser(parsers, name) IN
    /\ parsers' = r.parsers
    /\ returned' = Returned("remove_parser",
                            [name |-> Some(name), url_template |-> None,
                             response_type |-> None, enabled |-> None],
                            r.value, r.parsers # parsers)
    /\ UNCHANGED <<now, ticks, pc, video_url, sorted_parsers, idx, start_time,
                   result, attempted, recS, recF, proxyVars, limiterVars, fetch,
                   svip, batch, stats_file>>

\* one entry of a custom config file is taken in (at construction, by
\* _init_parsers)
LoadCustomParser(parser_data) ==
    /\ parsers' = load_custom_parser(parsers, parser_data)
    /\ returned' = Returned("load", parser_data,
                            validate_parser_config(parser_data),
                            parsers' # parsers)
    /\ UNCHANGED <<now, ticks, pc, video_url, sorted_parsers, idx, start_time,
                   result, attempted, recS, recF, proxyVars, limiterVars, fetch,
                   svip, batch, stats_file>>

\* ThirdPartyParserManager() over the default entries, and
\* ProxyManager(["p1"])
InitRegistry ==
    /\ now = 0
    /\ ticks = 0
    /\ parsers = [i \in 1..Len(DEFAULT_PARSERS) |->
                      ParserInterface(DEFAULT_PARSERS[i], DefaultTemplate, "html",
                                      TRUE)]
    /\ InitParseIdle
    /\ proxies = <<NewProxy("p1")>>
    /\ probing = {}
    /\ check_task = <<>>
    /\ InitClientIdle

NextRegistry ==
    \/ \E name \in CustomNames, url_template \in UrlTemplates,
          response_type \in ResponseTypes :
           AddParser(name, url_template, response_type)
    \/ \E name \in CustomNames : RemoveParser(name)
    \/ \E parser_data \in ConfigEntries : LoadCustomParser(parser_data)
    \/ \E name \in CustomNames : EnableParser(name)
    \/ \E name \in CustomNames : DisableParser(name)
    \/ \E url \in ProxyUrls : AddProxy(url)
    \/ \E url \in ProxyUrls : RemoveProxy(url)

SpecRegistry == InitRegistry /\ [][NextRegistry]_vars

----------------------------------------------------------------------------
(* SVIPHandler: the strategy chain.                                        *)
(* at_call and invoked are history fields of a bypass_svip_restriction     *)
(* call: bypass_strategies as they were when the call sorted them, and the *)
(* names of the strategies whose bypass() the call awaited, in order.      *)

\* the strategies SVIPHandler.__init__ builds (token_bypass left out) and
\* the ones AdvancedSVIPHandler.__init__ appends (one of the three)
BaseStrategies == <<"third_party_parse", "header_bypass", "cookie_bypass">>
AdvancedStrategies == <<"user_agent_rotation">>

\* SVIPBypassStrategy(name)
NewStrategy(name) == [name |-> name, success_count |-> 0, failure_count |-> 0]

\* SVIPHandler(config), and AdvancedSVIPHandler(config) when advanced:
\* stats['strategy_usage'] gets its keys in SVIPHandler.__init__, before the
\* subclass extends bypass_strategies
NewHandler(advanced) ==
    LET names == IF advanced THEN BaseStrategies \o AdvancedStrategies
                 ELSE BaseStrategies IN
    [strategies |-> [i \in 1..Len(names) |-> NewStrategy(names[i])],
     strategy_usage |-> {BaseStrategies[i] : i \in 1..Len(BaseStrategies)},
     pc |-> "idle", order |-> <<>>, pos |-> 0, result |-> "none",
     bypass_attempts |-> 0, at_call |-> <<>>, invoked |-> <<>>]

\* sorted(bypass_strategies, key=get_success_rate, reverse=True): the
\* names, highest rate first, equal rates in list order (the sort is stable)
sorted_strategies(ss) ==
    LET n == Len(ss)
        total(i) == ss[i].success_count + ss[i].failure_count
        num(i) == IF total(i) > 0 THEN ss[i].success_count ELSE 0
        den(i) == IF total(i) > 0 THEN total(i) ELSE 1
        before(i, j) == \/ num(i) * den(j) > num(j) * den(i)
                        \/ num(i) * den(j) = num(j) * den(i) /\ i < j
        at(k) == CHOOSE i \in 1..n : Cardinality({j \in 1..n : before(j, i)}) = k - 1
    IN [k \in 1..n |-> ss[at(k)].name]

\* position of the strategy called name in ss, 0 when there is none
StrategyIndex(ss, name) ==
    IF \E i \in 1..Len(ss) : ss[i].name = name
    THEN CHOOSE i \in 1..Len(ss) : ss[i].name = name
    ELSE 0

\* bypass_svip_restriction() up to its for loop
BypassCall ==
    /\ svip.pc = "idle"
    /\ svip.bypass_attempts < MaxBypassRuns
    /\ svip' = [svip EXCEPT !.pc = "loop", !.pos = 1, !.result = "none",
                            !.order = sorted_strategies(svip.strategies),
                            !.bypass_attempts = @ + 1,
                            !.at_call = svip.strategies, !.invoked = <<>>]
    /\ UNCHANGED <<now, ticks, relayVars, proxyVars, limiterVars, fetch, batch,
                   stats_file, returned>>

\* one turn of the for loop with the strategy at pos: the write to
\* stats['strategy_usage'][name] raises KeyError for a name that is no key,
\* which the except clause swallows; otherwise bypass() is awaited and ends
\* in a link, in None (the failure recorded by the strategy or not) or in an
\* exception
BypassTurn(outcome, recorded) ==
    /\ svip.pc = "loop"
    /\ svip.pos <= Len(svip.order)
    /\ LET name == svip.order[svip.pos]
           i == StrategyIndex(svip.strategies, name) IN
       IF name \notin svip.strategy_usage
       THEN /\ outcome = "raise" /\ ~recorded
            /\ svip' = [svip EXCEPT !.pos = @ + 1]
       ELSE CASE outcome = "url" ->
                   /\ recorded
                   /\ svip' = [svip EXCEPT !.strategies[i].success_count = @ + 1,
                                           !.invoked = Append(@, name),
                                           !.pc = "returned", !.result = "url"]
              [] outcome = "none" ->
                   svip' = [svip EXCEPT !.strategies[i].failure_count =
                                            IF recorded THEN @ + 1 ELSE @,
                                        !.invoked = Append(@, name),
                                        !.pos = @ + 1]
              [] outcome = "raise" ->
                   /\ ~recorded
                   /\ svip' = [svip EXCEPT !.invoked = Append(@, name),
                                           !.pos = @ + 1]
    /\ UNCHANGED <<now, ticks, relayVars, proxyVars, limiterVars, fetch, batch,
                   stats_file, returned>>

\* the for loop is exhausted: None is returned
BypassExhausted ==
    /\ svip.pc = "loop"
    /\ svip.pos > Len(svip.order)
    /\ svip' = [svip EXCEPT !.pc = "returned", !.result = "None"]
    /\ UNCHANGED <<now, ticks, relayVars, proxyVars, limiterVars, fetch, batch,
                   stats_file, returned>>

\* the caller takes the result
BypassReturn ==
    /\ svip.pc = "returned"
    /\ svip' = [svip EXCEPT !.pc = "idle"]
    /\ UNCHANGED <<now, ticks, relayVars, proxyVars, limiterVars, fetch, batch,
                   stats_file, returned>>

\* SVIPHandler(config) or AdvancedSVIPHandler(config), as ScraperEngine and
\* AdvancedScraperEngine build them
InitSvip ==
    /\ now = 0
    /\ ticks = 0
    /\ parsers = <<>>
    /\ InitParseIdle
    /\ InitProxyIdle
    /\ clock = 0
    /\ limiter = <<>>
    /\ callers = <<>>
    /\ issued = <<>>
    /\ fetch = <<>>
    /\ \E advanced \in BOOLEAN : svip = NewHandler(advanced)
    /\ batch = <<>>
    /\ stats_file = {}
    /\ returned = <<>>

NextSvip ==
    \/ BypassCall
    \/ \E outcome \in {"url", "none", "raise"}, recorded \in BOOLEAN :
           BypassTurn(outcome, recorded)
    \/ BypassExhausted
    \/ BypassReturn

SpecSvip == InitSvip /\ [][NextSvip]_vars

----------------------------------------------------------------------------
(* AdvancedScraperEngine.scrape_batch_concurrent: one task per url, each   *)
(* inside `async with self.semaphore`.  done_order is a history field: the *)
(* tasks in the order in which they finished.                              *)

\* the urls of a batch: a call submits the first n of them
BatchUrls == <<"u1", "u2", "u3">>

\* values of config.max_concurrent (5 when the config has no such attribute)
Concurrencies == {1, 2}

\* AdvancedScraperEngine(config): asyncio.Semaphore(self.max_concurrent)
NewAdvancedEngine(max_concurrent) ==
    [max_concurrent |-> max_concurrent, semaphore |-> max_concurrent,
     pc |-> "idle", calls |-> 0, tasks |-> <<>>, results |-> <<>>,
     done_order |-> <<>>]

\* variant: the semaphore lets a task in whatever its value
semaphore_free_always(value) == TRUE

\* asyncio.Semaphore: acquire() returns at once while the value is positive
semaphore_free(value) == value > 0

\* scrape_batch_concurrent(urls) up to its gather: the tasks are created
ConcurrentCall(n) ==
    /\ batch.pc = "idle"
    /\ batch.calls < MaxBatches
    /\ batch' = [batch EXCEPT
                     !.calls = @ + 1,
                     !.pc = IF n = 0 THEN "returned" ELSE "gather",
                     !.tasks = [i \in 1..n |-> [url |-> BatchUrls[i], pc |-> "waiting",
                                                attempt |-> 0]],
                     !.results = <<>>, !.done_order = <<>>]
    /\ UNCHANGED <<now, ticks, relayVars, proxyVars, limiterVars, fetch, svip,
                   stats_file, returned>>

\* scrape_with_semaphore: the task enters `async with self.semaphore`
TaskEnter(i) ==
    /\ batch.pc = "gather"
    /\ i \in 1..Len(batch.tasks)
    /\ batch.tasks[i].pc = "waiting"
    /\ semaphore_free(batch.semaphore)
    /\ batch' = [batch EXCEPT !.semaphore = @ - 1, !.tasks[i].pc = "running"]
    /\ UNCHANGED <<now, ticks, relayVars, proxyVars, limiterVars, fetch, svip,
                   stats_file, returned>>

\* scrape_video_with_retry: the scrape_video of the current attempt returns
\* a VideoData or raises; after max_retries + 1 failures the error is
\* raised, scrape_with_semaphore turns it into None; the semaphore is
\* released when the task leaves the block
TaskAttemptEnds(i, ok) ==
    /\ batch.pc = "gather"
    /\ i \in 1..Len(batch.tasks)
    /\ batch.tasks[i].pc = "running"
    /\ batch' =
           IF ok
           THEN [batch EXCEPT !.tasks[i].pc = "video", !.semaphore = @ + 1,
                              !.done_order = Append(@, i)]
           ELSE IF batch.tasks[i].attempt = max_retries
           THEN [batch EXCEPT !.tasks[i].pc = "None", !.semaphore = @ + 1,
                              !.done_order = Append(@, i)]
           ELSE [batch EXCEPT !.tasks[i].attempt = @ + 1]
    /\ UNCHANGED <<now, ticks, relayVars, proxyVars, limiterVars, fetch, svip,
                   stats_file, returned>>

\* gather has every result: the VideoData among them are returned, in the
\* order of the urls
GatherReturns ==
    /\ batch.pc = "gather"
    /\ \A i \in 1..Len(batch.tasks) : batch.tasks[i].pc \in {"video", "None"}
    /\ batch' = [batch EXCEPT
                     !.pc = "returned",
                     !.results = SelectSeq([i \in 1..Len(batch.tasks) |->
                                                batch.tasks[i]],
                                           LAMBDA t : t.pc = "video")]
    /\ UNCHANGED <<now, ticks, relayVars, proxyVars, limiterVars, fetch, svip,
                   stats_file, returned>>

\* the caller takes the list
ConcurrentDone ==
    /\ batch.pc = "returned"
    /\ batch' = [batch EXCEPT !.pc = "idle"]
    /\ UNCHANGED <<now, ticks, relayVars, proxyVars, limiterVars, fetch, svip,
                   stats_file, returned>>

InitConcurrent ==
    /\ now = 0
    /\ ticks = 0
    /\ parsers = <<>>
    /\ InitParseIdle
    /\ InitProxyIdle
    /\ clock = 0
    /\ limiter = <<>>
    /\ callers = <<>>
    /\ issued = <<>>
    /\ fetch = <<>>
    /\ svip = <<>>
    /\ \E max_concurrent \in Concurrencies : batch = NewAdvancedEngine(max_concurrent)
    /\ stats_file = {}
    /\ returned = <<>>

NextConcurrent ==
    \/ \E n \in 0..Len(BatchUrls) : ConcurrentCall(n)
    \/ \E i \in 1..Len(BatchUrls) : TaskEnter(i)
    \/ \E i \in 1..Len(BatchUrls), ok \in BOOLEAN : TaskAttemptEnds(i, ok)
    \/ GatherReturns
    \/ ConcurrentDone

\* the event loop runs every task that can run, and every scrape_video
\* call ends (its requests have a timeout)
ConcurrentFairness ==
    /\ \A i \in 1..Len(BatchUrls) :
           /\ WF_vars(TaskEnter(i))
           /\ WF_vars(\E ok \in BOOLEAN : TaskAttemptEnds(i, ok))
    /\ WF_vars(GatherReturns)

SpecConcurrent == InitConcurrent /\ [][NextConcurrent]_vars /\ ConcurrentFairness

----------------------------------------------------------------------------
(* The retry helpers of HTTPClient as functions of their arguments.        *)
(* `returned` holds the arguments of a call and, once the call is made,    *)
(* its value.                                                              *)

\* status codes given to the helpers: some below 400, and 400..599, and 600
HelperStatuses == {200, 204, 301, 399, 600} \cup (400..599)

\* values of random.uniform(0, 1): 0, 0.5 and 1 second
Jitters == {0, 500, 1000}

\* client._should_retry(status, attempt)
ShouldRetryCall ==
    /\ returned.op = "arguments"
    /\ returned' = [returned EXCEPT
                        !.op = "should_retry",
                        !.retry = should_retry_with(returned.max_retries,
                                                    returned.status, returned.attempt)]
    /\ UNCHANGED <<now, ticks, relayVars, proxyVars, limiterVars, fetch, svip,
                   batch, stats_file>>

\* await client._calculate_backoff_delay(attempt, status)
BackoffDelayCall ==
    /\ returned.op = "arguments"
    /\ returned' = [returned EXCEPT
                        !.op = "calculate_backoff_delay",
                        !.delay = calculate_backoff_delay(returned.attempt,
                                                          returned.status,
                                                          returned.jitter)]
    /\ UNCHANGED <<now, ticks, relayVars, proxyVars, limiterVars, fetch, svip,
                   batch, stats_file>>

InitHelpers ==
    /\ now = 0
    /\ ticks = 0
    /\ parsers = <<>>
    /\ InitParseIdle
    /\ InitProxyIdle
    /\ clock = 0
    /\ limiter = <<>>
    /\ callers = <<>>
    /\ issued = <<>>
    /\ fetch = <<>>
    /\ svip = <<>>
    /\ batch = <<>>
    /\ stats_file = None
    /\ \E status \in HelperStatuses, attempt \in 0..MaxAttempt,
          retries \in 0..MaxRetriesConfig, jitter \in Jitters :
           returned = [op |-> "arguments", status |-> status, attempt |-> attempt,
                       max_retries |-> retries, jitter |-> jitter,
                       retry |-> FALSE, delay |-> 0]

NextHelpers ==
    \/ ShouldRetryCall
    \/ BackoffDelayCall

SpecHelpers == InitHelpers /\ [][NextHelpers]_vars

----------------------------------------------------------------------------
(* save_stats and _load_stats of the relay pool.  The file is the JSON     *)
(* object save_stats writes: its keys with their values, in the order of   *)
(* the pool.  The ledger of the model has no last_success_time and no      *)
(* last_failure_time, so the values hold the three counters.  `returned`   *)
(* keeps the history of the persistence calls: the pool as it was when it  *)
(* was saved, and the pool a restart built before and after _load_stats.   *)

\* a config file with one valid entry, and no config file
ConfigFiles ==
    {<<>>,
     <<[name |-> Some("X"), url_template |-> Some(<<"https://jx.y/?v=", "{url}">>),
        response_type |-> Some("json"), enabled |-> None]>>}

\* _load_custom_parsers: the entries of the config file, one after the other
RECURSIVE load_custom_parsers(_, _)
load_custom_parsers(ps, config) ==
    IF config = <<>> THEN ps
    ELSE load_custom_parsers(load_custom_parser(ps, Head(config)), Tail(config))

\* _init_parsers: DEFAULT_PARSERS, then the config file
init_parsers(config) ==
    load_custom_parsers([i \in 1..Len(DEFAULT_PARSERS) |->
                             ParserInterface(DEFAULT_PARSERS[i], DefaultTemplate,
                                             "html", TRUE)],
                        config)

\* save_stats: stats_data[parser.name] = {...} for every parser, json.dump
save_stats(ps) ==
    [i \in 1..Len(ps) |->
         [key |-> ps[i].name,
          value |-> [success_count |-> ps[i].success_count,
                     failure_count |-> ps[i].failure_count,
                     total_response_time |-> ps[i].total_response_time]]]

\* json.load: the value of a key, None when the object has no such key
StatsOf(stats_data, name) ==
    LET ks == {k \in 1..Len(stats_data) : stats_data[k].key = name}
    IN  IF ks = {} THEN None
        ELSE Some(stats_data[CHOOSE k \in ks : \A j \in ks : j <= k].value)

\* variant: the two counts are restored, total_response_time is not
load_stats_counts_only(ps, file) ==
    IF file = None THEN ps
    ELSE [i \in 1..Len(ps) |->
              LET stats == StatsOf(The(file), ps[i].name)
              IN  IF stats = None THEN ps[i]
                  ELSE [ps[i] EXCEPT
                            !.success_count = The(stats).success_count,
                            !.failure_count = The(stats).failure_count]]

\* _load_stats: nothing without a file; else every parser whose name is a
\* key of the file takes the counters of the file
load_stats(ps, file) ==
    IF file = None THEN ps
    ELSE [i \in 1..Len(ps) |->
              LET stats == StatsOf(The(file), ps[i].name)
              IN  IF stats = None THEN ps[i]
                  ELSE [ps[i] EXCEPT
                            !.success_count = The(stats).success_count,
                            !.failure_count = The(stats).failure_count,
                            !.total_response_time = The(stats).total_response_time]]

\* _record_success / _record_failure on a parser of the pool
StatsRecord(i, ok, response_time) ==
    /\ i \in 1..Len(parsers)
    /\ TotalSuccesses(parsers) + TotalFailures(parsers) < MaxStatsRecords
    /\ parsers' = [parsers EXCEPT ![i] = IF ok THEN record_success(@, response_time)
                                               ELSE record_failure(@, now)]
    /\ UNCHANGED <<now, ticks, pc, video_url, sorted_parsers, idx, start_time,
                   result, attempted, recS, recF, proxyVars, clientVars>>

\* manager.save_stats()
SaveStats ==
    /\ returned.saves < MaxSaves
    /\ stats_file' = Some(save_stats(parsers))
    /\ returned' = [returned EXCEPT !.op = "save_stats", !.saves = @ + 1,
                                    !.saved = Some(parsers)]
    /\ UNCHANGED <<now, ticks, relayVars, proxyVars, limiterVars, fetch, svip, batch>>

\* ThirdPartyParserManager(config, config_file): _init_parsers, _load_stats
Restart(config) ==
    /\ returned.restarts < MaxRestarts
    /\ parsers' = load_stats(init_parsers(config), stats_file)
    /\ returned' = [returned EXCEPT !.op = "restart", !.restarts = @ + 1,
                                    !.fresh = init_parsers(config),
                                    !.loaded = parsers']
    /\ UNCHANGED <<now, ticks, pc, video_url, sorted_parsers, idx, start_time,
                   result, attempted, recS, recF, proxyVars, limiterVars, fetch,
                   svip, batch, stats_file>>

InitStats ==
    /\ now = 0
    /\ ticks = 0
    /\ \E config \in ConfigFiles : parsers = init_parsers(config)
    /\ InitParseIdle
    /\ InitProxyIdle
    /\ clock = 0
    /\ limiter = <<>>
    /\ callers = <<>>
    /\ issued = <<>>
    /\ fetch = <<>>
    /\ svip = <<>>
    /\ batch = <<>>
    /\ stats_file = None
    /\ returned = [op |-> "init", saves |-> 0, restarts |-> 0, saved |-> None,
                   fresh |-> <<>>, loaded |-> <<>>]

NextStats ==
    \/ \E i \in 1..Len(parsers), ok \in BOOLEAN, rt \in Latencies :
           StatsRecord(i, ok, rt)
    \/ SaveStats
    \/ \E config \in ConfigFiles : Restart(config)

SpecStats == InitStats /\ [][NextStats]_vars

----------------------------------------------------------------------------
(* ScraperEngine.scrape_batch: the urls one after the other, each through  *)
(* scrape_video.  tried, succeeded and attempted are history fields: the   *)
(* urls of this call given to scrape_video, those of them whose data was   *)
(* validated, and the number of scrape_video calls on the engine.          *)

\* ScraperEngine(config): the counters at 0, no progress callback
NewEngine ==
    [progress_callback |-> FALSE,
     stats |-> [total_videos |-> 0, successful_videos |-> 0, failed_videos |-> 0],
     pc |-> "idle", calls |-> 0, urls |-> <<>>, i |-> 0, results |-> <<>>,
     tried |-> <<>>, succeeded |-> <<>>, attempted |-> 0]

\* scrape_video(url) as scrape_batch sees it; ok: the page was fetched,
\* parsed and validated; completed_raises: the progress callback raises when
\* it is told of the success.  value is the VideoData (the url stands for
\* it) or None when the call raised
scrape_video(e, url, ok, completed_raises) ==
    LET started == [e EXCEPT !.stats.total_videos = @ + 1,
                             !.attempted = @ + 1,
                             !.tried = Append(@, url)]
        counted == [started EXCEPT !.stats.successful_videos = @ + 1,
                                   !.succeeded = Append(@, url)]
    IN  IF ~ok
        THEN [engine |-> [started EXCEPT !.stats.failed_videos = @ + 1],
              value |-> None]
        ELSE IF e.progress_callback /\ completed_raises
        THEN [engine |-> [counted EXCEPT !.stats.failed_videos = @ + 1],
              value |-> None]
        ELSE [engine |-> counted, value |-> Some(url)]

\* set_progress_callback(callback), or the engine left without one
SetProgressCallback(callback) ==
    /\ batch.pc = "idle"
    /\ batch.calls = 0
    /\ batch.progress_callback # callback
    /\ batch' = [batch EXCEPT !.progress_callback = callback]
    /\ UNCHANGED <<now, ticks, relayVars, proxyVars, limiterVars, fetch, svip,
                   stats_file, returned>>

\* scrape_batch(urls) up to its loop; an empty list returns [] at once
BatchCall(n) ==
    /\ batch.pc = "idle"
    /\ batch.calls < MaxBatches
    /\ batch' = [batch EXCEPT
                     !.calls = @ + 1,
                     !.pc = IF n = 0 THEN "returned" ELSE "loop",
                     !.urls = SubSeq(BatchUrls, 1, n),
                     !.i = 1, !.results = <<>>, !.tried = <<>>,
                     !.succeeded = <<>>]
    /\ UNCHANGED <<now, ticks, relayVars, proxyVars, limiterVars, fetch, svip,
                   stats_file, returned>>

\* one turn of the loop of scrape_batch: the progress callback, then
\* scrape_video; an exception of either is logged and the loop goes on
BatchTurn(ok, progress_raises, completed_raises) ==
    /\ batch.pc = "loop"
    /\ batch.progress_callback \/ (~progress_raises /\ ~completed_raises)
    /\ LET url == batch.urls[batch.i]
           call == scrape_video(batch, url, ok, completed_raises)
           after == IF batch.progress_callback /\ progress_raises
                    THEN batch
                    ELSE IF call.value = None
                    THEN call.engine
                    ELSE [call.engine EXCEPT !.results = Append(@, The(call.value))]
       IN  batch' = [after EXCEPT
                         !.i = @ + 1,
                         !.pc = IF batch.i = Len(batch.urls) THEN "report" ELSE "loop"]
    /\ UNCHANGED <<now, ticks, relayVars, proxyVars, limiterVars, fetch, svip,
                   stats_file, returned>>

\* after the loop: the report, the progress callback outside any try, the
\* return of the results
BatchFinish(completed_raises) ==
    /\ batch.pc = "report"
    /\ batch.progress_callback \/ ~completed_raises
    /\ batch' = [batch EXCEPT
                     !.pc = IF batch.progress_callback /\ completed_raises
                            THEN "raised" ELSE "returned"]
    /\ UNCHANGED <<now, ticks, relayVars, proxyVars, limiterVars, fetch, svip,
                   stats_file, returned>>

\* the caller has the list or the exception
BatchDone ==
    /\ batch.pc \in {"returned", "raised"}
    /\ batch' = [batch EXCEPT !.pc = "idle"]
    /\ UNCHANGED <<now, ticks, relayVars, proxyVars, limiterVars, fetch, svip,
                   stats_file, returned>>

InitBatch ==
    /\ now = 0
    /\ ticks = 0
    /\ parsers = <<>>
    /\ InitParseIdle
    /\ InitProxyIdle
    /\ clock = 0
    /\ limiter = <<>>
    /\ callers = <<>>
    /\ issued = <<>>
    /\ fetch = <<>>
    /\ svip = <<>>
    /\ batch = NewEngine
    /\ stats_file = {}
    /\ returned = <<>>

NextBatch ==
    \/ \E callback \in BOOLEAN : SetProgressCallback(callback)
    \/ \E n \in 0..Len(BatchUrls) : BatchCall(n)
    \/ \E ok, progress_raises, completed_raises \in BOOLEAN :
           BatchTurn(ok, progress_raises, completed_raises)
    \/ \E completed_raises \in BOOLEAN : BatchFinish(completed_raises)
    \/ BatchDone

SpecBatch == InitBatch /\ [][NextBatch]_vars

----------------------------------------------------------------------------
(* Properties of the relay pool *)

\* a step in which _record_failure acted on parsers[i]
IsFailureStep(i) ==
    /\ i \in 1..Len(parsers) /\ Len(parsers') = Len(parsers)
    /\ parsers'[i].failure_count = parsers[i].failure_count + 1

\* a step in which _record_success acted on parsers[i]
IsSuccessStep(i) ==
    /\ i \in 1..Len(parsers) /\ Len(parsers') = Len(parsers)
    /\ parsers'[i].success_count = parsers[i].success_count + 1

\* C1: right after the 5th consecutive _record_failure (no success in
\* between) the resource is in cooldown, and after any smaller number of
\* consecutive failures it is not.
C1_CooldownAtThreshold ==
    [][\A i \in 1..Len(parsers) :
          IsFailureStep(i) =>
              /\ parsers'[i].consecutive_failures = parsers[i].consecutive_failures + 1
              /\ parsers'[i].consecutive_failures = 5
                     => is_in_cooldown_at(parsers'[i], now')
              /\ parsers'[i].consecutive_failures < 5
                     => ~is_in_cooldown_at(parsers'[i], now')]_vars

\* exactly five failures on a fresh resource, at the instant of the fifth
C1_Witness ==
    /\ parsers[1].failure_count = 5
    /\ parsers[1].success_count = 0
    /\ parsers[1].consecutive_failures = 5
    /\ parsers[1].cooldown_until = {now + 60}
    /\ is_in_cooldown(parsers[1])

\* C2: one _record_success, from any ledger state, leaves cooldown_until =
\* None and consecutive_failures = 0, so the resource is not in cooldown.
C2_SuccessClearsCooldown ==
    [][\A i \in 1..Len(parsers) :
          IsSuccessStep(i) =>
              /\ parsers'[i].cooldown_until = {}
              /\ parsers'[i].consecutive_failures = 0
              /\ ~is_in_cooldown_at(parsers'[i], now')]_vars

\* a success recorded on a resource that was cooling down after 7 failures
\* in a row (no time has passed, so the cooldown had not expired)
C2_Witness ==
    /\ ticks = 0
    /\ parsers[1].success_count = 1
    /\ parsers[1].failure_count = 7
    /\ parsers[1].consecutive_failures = 0
    /\ parsers[1].cooldown_until = {}

\* the duration the claim gives for c consecutive failures
C3_Duration(c) == IF 60 * (2 ^ (c - 5)) <= 3600 THEN 60 * (2 ^ (c - 5)) ELSE 3600

\* C3: the cooldown set at consecutive_failures = c >= 5 lasts
\* min(60 * 2^(c-5), 3600) seconds from the failure; it never exceeds 3600
\* and a further failure never yields an earlier deadline.
C3_CooldownDuration ==
    [][\A i \in 1..Len(parsers) :
          (IsFailureStep(i) /\ parsers'[i].consecutive_failures >= 5) =>
              /\ parsers'[i].cooldown_until
                     = {now + C3_Duration(parsers'[i].consecutive_failures)}
              /\ \A d \in parsers'[i].cooldown_until : d - now <= 3600
              /\ \A d \in parsers'[i].cooldown_until :
                     \A e \in parsers[i].cooldown_until : d >= e]_vars

\* the cap is reached: twelve failures in a row give a 3600 s cooldown
C3_Witness ==
    /\ parsers[1].consecutive_failures = 12
    /\ parsers[1].cooldown_until = {now + 3600}

\* names returned by get_sorted_parsers now
Ranked == {get_sorted_parsers[k].name : k \in 1..Len(get_sorted_parsers)}

\* C4: rank() holds a resource iff it is registered, enabled and not in
\* cooldown at the current time (no deadline, or the deadline has passed),
\* each such resource once.
C4_RankMembership ==
    /\ \A name \in PoolNames :
           name \in Ranked <=>
               \E i \in 1..Len(parsers) :
                   /\ parsers[i].name = name
                   /\ parsers[i].enabled
                   /\ \A d \in parsers[i].cooldown_until : now >= d
    /\ Ranked \subseteq {parsers[i].name : i \in 1..Len(parsers)}
    /\ Len(get_sorted_parsers) = Cardinality(Ranked)

\* a resource whose cooldown has expired is ranked again while another,
\* disabled one is not
C4_Witness ==
    \E i, j \in 1..Len(parsers) :
        /\ parsers[i].cooldown_until # {}
        /\ \A d \in parsers[i].cooldown_until : now >= d
        /\ parsers[i].name \in Ranked
        /\ ~parsers[j].enabled
        /\ parsers[j].name \notin Ranked

\* success rate of the claim: successes / observations, 1/2 without any
C5_RateNum(p) == IF p.success_count + p.failure_count = 0 THEN 1 ELSE p.success_count
C5_RateDen(p) ==
    IF p.success_count + p.failure_count = 0 THEN 2
    ELSE p.success_count + p.failure_count

\* average latency a is at most average latency b, no success meaning infinity
C5_AvgLeq(p, q) ==
    \/ q.success_count = 0
    \/ /\ p.success_count > 0
       /\ p.total_response_time * q.success_count
              <= q.total_response_time * p.success_count

C5_Position(p) == CHOOSE i \in 1..Len(parsers) : parsers[i].name = p.name

\* C5: rank() is non-increasing in success rate; at equal rates it is
\* non-decreasing in average latency; resources equal on both keys keep
\* their registration order.
C5_RankOrder ==
    LET r == get_sorted_parsers IN
    \A a, b \in 1..Len(r) :
        a < b =>
            LET x == C5_RateNum(r[a]) * C5_RateDen(r[b])
                y == C5_RateNum(r[b]) * C5_RateDen(r[a])
            IN /\ x >= y
               /\ x = y => C5_AvgLeq(r[a], r[b])
               /\ (x = y /\ C5_AvgLeq(r[b], r[a]))
                      => C5_Position(r[a]) < C5_Position(r[b])

\* three ranked resources: the last registered first by rate, the other two
\* at the same rate ordered by latency against their registration order
C5_Witness ==
    LET r == get_sorted_parsers IN
    /\ Len(r) = 3
    /\ r[1].name = "C" /\ r[2].name = "B" /\ r[3].name = "A"
    /\ r[2].success_count = 1 /\ r[3].success_count = 1
    /\ r[2].failure_count = r[3].failure_count
    /\ r[2].total_response_time < r[3].total_response_time

\* C6: parse attempts the resources in the order rank() gave at the call,
\* none skipped; the first attempt whose URL passes validation ends the call
\* with that URL; when it returns a URL after N attempts, it recorded one
\* success, on the N-th, and one failure on each of the N-1 before it.
C6_FirstValidResult ==
    /\ pc \in {"await_get", "sleep", "returned"}
           => /\ Len(attempted) <= Len(sorted_parsers)
              /\ attempted = SubSeq(sorted_parsers, 1, Len(attempted))
    /\ recS # <<>>
           => /\ pc = "returned"
              /\ result # {}
    /\ (pc = "returned" /\ result # {})
           => /\ Len(attempted) >= 1
              /\ recS = <<attempted[Len(attempted)]>>
              /\ recF = SubSeq(attempted, 1, Len(attempted) - 1)

\* a URL returned by the third ranked resource after two failed attempts
C6_Witness ==
    /\ pc = "returned"
    /\ result # {}
    /\ Len(attempted) = 3
    /\ Len(recF) = 2

\* C7: parse never raises to its caller; it returns None when rank() is
\* empty and when every ranked resource failed, with one failure recorded
\* per attempted resource.
C7_NeverRaises ==
    /\ pc # "raised"
    /\ (pc = "returned" /\ sorted_parsers = <<>>) => result = {}
    /\ (pc = "returned" /\ recS = <<>>)
           => /\ result = {}
              /\ recF = attempted
              /\ attempted = sorted_parsers

\* what does hold: for a target urlparse accepts, the call ends by
\* returning, with None after an empty ranking or after every ranked
\* resource failed
C7_ExhaustionReturnsNone ==
    /\ pc = "raised" => video_url = "malformed"
    /\ (pc = "returned" /\ sorted_parsers = <<>>) => result = {}
    /\ (pc = "returned" /\ recS = <<>>)
           => /\ result = {}
              /\ recF = attempted
              /\ attempted = sorted_parsers

----------------------------------------------------------------------------
(* Properties of the proxy pool *)

ProxyOf(ps, url) == ps[ProxyIndex(ps, url)]

\* C8: a BANNED proxy stays BANNED, under probes, mark_proxy_failed and
\* further bans, until reset_proxy or remove_proxy is called for it.
C8_BannedStaysBanned ==
    [][\A url \in ProxyUrls :
          (/\ Registered(url)
           /\ ProxyOf(proxies, url).status = "BANNED"
           /\ ~ResetProxy(url)
           /\ ~RemoveProxy(url))
          => /\ ProxyIndex(proxies', url) # 0
             /\ ProxyOf(proxies', url).status = "BANNED"
             /\ {url} \notin get_active_proxy']_vars

\* C9 as stated: a probe makes a proxy FAILED only at its 3rd consecutive
\* failed probe, a failed probe short of that leaves it ACTIVE, and a
\* successful probe makes it ACTIVE.
C9_OnlyAfterThreeFailedProbes ==
    [][\A e \in probing :
          (Registered(e.url) /\ ProxyOf(proxies, e.url).status = "CHECKING") =>
              /\ ProbeEnd(e, FALSE) =>
                     /\ ProxyOf(proxies', e.url).status = "FAILED"
                            => ProxyOf(proxies', e.url).probe_fails >= 3
                     /\ ProxyOf(proxies', e.url).probe_fails < 3
                            => ProxyOf(proxies', e.url).status = "ACTIVE"
              /\ ProbeEnd(e, TRUE) => ProxyOf(proxies', e.url).status = "ACTIVE"]_vars

\* C9, amended: failure_count counts the failed probes and the
\* mark_proxy_failed calls since the last successful probe or reset; a
\* failed probe leaves the proxy FAILED when the count it reaches is 3 or
\* more and ACTIVE otherwise; a successful probe leaves it ACTIVE with the
\* count at 0; a FAILED proxy is probed like any other.
C9_ProbeTransitions ==
    [][/\ \A i \in 1..Len(proxies') :
              proxies'[i].failure_count
                  = proxies'[i].probe_fails + proxies'[i].request_fails
       /\ \A e \in probing :
              Registered(e.url) =>
                  /\ ProbeEnd(e, FALSE) =>
                         /\ ProxyOf(proxies', e.url).failure_count
                                = ProxyOf(proxies, e.url).failure_count + 1
                         /\ ProxyOf(proxies', e.url).failure_count >= 3
                                => ProxyOf(proxies', e.url).status = "FAILED"
                         /\ ProxyOf(proxies', e.url).failure_count < 3
                                => ProxyOf(proxies', e.url).status = "ACTIVE"
                  /\ ProbeEnd(e, TRUE) =>
                         /\ ProxyOf(proxies', e.url).status = "ACTIVE"
                         /\ ProxyOf(proxies', e.url).failure_count = 0
       /\ \A url \in ProxyUrls :
              (/\ Registered(url)
               /\ ProxyOf(proxies, url).status = "FAILED"
               /\ ProbeStart(url))
              => ProxyOf(proxies', url).status = "CHECKING"]_vars

\* three failed probes in a row, and nothing else, have made a proxy FAILED
C9_Witness ==
    \E i \in 1..Len(proxies) :
        /\ proxies[i].status = "FAILED"
        /\ proxies[i].probe_fails = 3
        /\ proxies[i].request_fails = 0
        /\ proxies[i].success_count = 0

\* C10: get_active_proxy returns only a registered proxy whose status is
\* ACTIVE, and returns None exactly when no registered proxy is ACTIVE.
C10_SelectOnlyActive ==
    /\ get_active_proxy # {}
    /\ \A r \in get_active_proxy :
           r # {} => \E i \in 1..Len(proxies) :
                         /\ r = {proxies[i].url}
                         /\ proxies[i].status = "ACTIVE"
    /\ ({} \in get_active_proxy)
           <=> (\A i \in 1..Len(proxies) : proxies[i].status # "ACTIVE")
    /\ ({} \in get_active_proxy) => get_active_proxy = {{}}

\* one proxy is under check and the other, ACTIVE, is the only selectable one
C10_Witness ==
    \E i, j \in 1..Len(proxies) :
        /\ proxies[i].status = "CHECKING"
        /\ proxies[j].status = "ACTIVE"
        /\ get_active_proxy = {{proxies[j].url}}

\* the ACTIVE proxies of the pool
C11_Active == {i \in 1..Len(proxies) : proxies[i].status = "ACTIVE"}

\* success rate of a proxy as a fraction, 0 without observation
C11_Num(p) == p.success_count
C11_Den(p) == IF p.success_count + p.failure_count = 0 THEN 1
              ELSE p.success_count + p.failure_count

\* proxy i is ranked before proxy j: higher success rate, or the same rate
\* and a shorter response time, or the same on both and registered earlier
C11_Before(i, j) ==
    LET x == C11_Num(proxies[i]) * C11_Den(proxies[j])
        y == C11_Num(proxies[j]) * C11_Den(proxies[i])
    IN \/ x > y
       \/ x = y /\ proxies[i].response_time < proxies[j].response_time
       \/ x = y /\ proxies[i].response_time = proxies[j].response_time /\ i < j

\* position of ACTIVE proxy i in the ranking
C11_Rank(i) == 1 + Cardinality({j \in C11_Active : C11_Before(j, i)})

\* C11 as stated: with n >= 1 ACTIVE proxies, select() can return exactly
\* the first max(1, ceil(n/2)) proxies of the ranking.
C11_TopHalfRoundedUp ==
    LET n == Cardinality(C11_Active) IN
    n >= 1 => get_active_proxy =
                  {{proxies[i].url} : i \in {j \in C11_Active :
                                                C11_Rank(j) <= (n + 1) \div 2}}

\* C11, amended: with n >= 1 ACTIVE proxies, select() can return exactly
\* the first max(1, floor(n/2)) proxies of the ranking.
C11_TopHalfRoundedDown ==
    LET n == Cardinality(C11_Active)
        k == IF n \div 2 >= 1 THEN n \div 2 ELSE 1
    IN n >= 1 => get_active_proxy =
                     {{proxies[i].url} : i \in {j \in C11_Active : C11_Rank(j) <= k}}

\* four ACTIVE proxies, two of them selectable, the first registered not
\* among them
C11_Witness ==
    /\ Cardinality(C11_Active) = 4
    /\ Cardinality(get_active_proxy) = 2
    /\ {"p1"} \notin get_active_proxy

----------------------------------------------------------------------------
(* Properties of HTTPClient.get *)

\* the ban signature of the contract: status 403, 429 or 503, or a body
\* that is a block page
C12_Signature(o) == o.status \in {403, 429, 503} \/ o.block

\* C12: whenever get() receives through a proxy P a response matching a
\* ban signature, P is BANNED afterwards, whatever the status class of the
\* response (a 2xx block page included) and whatever get() does next.
C12_BanSignatureMarksBanned ==
    [][\A o \in Responses :
          (/\ FetchResponse(o)
           /\ C12_Signature(o)
           /\ fetch.proxy # {})
          => \A u \in fetch.proxy : ProxyOf(proxies', u).status = "BANNED"]_vars

\* C13: an attempt on which a ban was detected never ends the call with a
\* response, and no later attempt of the same call goes through the proxy
\* the ban was detected on.
C13_RetryAvoidsBannedProxy ==
    /\ (fetch.pc = "returned" /\ fetch.ban_seen # {}) => fetch.result = "None"
    /\ fetch.pc = "await_get" => fetch.proxy \cap fetch.ban_seen = {}

\* C18: every response with a 2xx status ends get() with that response
\* returned, no retry made, and one more success counted on the proxy that
\* carried the request.
C18_SuccessReturnsAndRecords ==
    [][\A o \in Responses :
          (/\ FetchResponse(o)
           /\ 200 <= o.status /\ o.status < 300)
          => /\ fetch'.pc = "returned"
             /\ fetch'.result = "response"
             /\ fetch'.attempts = fetch.attempts
             /\ \A u \in fetch.proxy :
                    ProxyOf(proxies', u).success_count
                        = ProxyOf(proxies, u).success_count + 1]_vars

\* C19: every transport exception of an attempt, connection error and
\* timeout alike, counts one failure on the proxy of the attempt and
\* triggers the exponential backoff of the limiter, before the retry.
C19_ExceptionRecordsAndBacksOff ==
    [][\A o \in Exceptions :
          (/\ FetchResponse(o)
           /\ o.kind \in {"timeout", "client_error"})
          => /\ \A u \in fetch.proxy :
                    ProxyOf(proxies', u).failure_count
                        = ProxyOf(proxies, u).failure_count + 1
             /\ limiter' = trigger_exponential_backoff(limiter)]_vars

\* the attempts of a call are within max_retries + 1, and the call gives
\* up only on an outcome that is not retryable or on the last attempt
C20_Bounded ==
    /\ fetch.attempts <= max_retries + 1
    /\ fetch.pc = "sleep" => fetch.last = "retryable" /\ fetch.attempts <= max_retries
    /\ (fetch.pc = "returned" /\ fetch.result = "response") => fetch.last = "ok"
    /\ (fetch.pc = "returned" /\ fetch.result = "None")
       => \/ fetch.last = "final"
          \/ fetch.last = "retryable" /\ fetch.attempts = max_retries + 1

\* C20: one get() terminates, issues at most max_retries + 1 transport
\* attempts, and returns a failure only after an outcome that is not
\* retryable or after max_retries + 1 attempts that all ended in a
\* retryable failure.
C20_TerminatesWithinRetries ==
    /\ []C20_Bounded
    /\ (fetch.pc \in {"await_get", "sleep"}) ~> (fetch.pc = "returned")

\* the call has given up after max_retries + 1 attempts, the last one
\* retryable as the ones before
C20_Witness ==
    /\ fetch.pc = "returned"
    /\ fetch.result = "None"
    /\ fetch.attempts = max_retries + 1
    /\ fetch.last = "retryable"

----------------------------------------------------------------------------
(* Properties of the RateLimiter *)

\* the tolerance of the pacing contract, in milliseconds
Tolerance == 50

\* one caller only has used the limiter so far, back to back and with
\* backoff_factor 1.0 throughout
C14_SingleCaller ==
    /\ \A k \in 1..Len(issued) : issued[k].by = "c1"
    /\ callers["c2"].pc = "idle"
    /\ limiter.total_requests
           = Len(issued) + (IF callers["c1"].pc = "sleep" THEN 1 ELSE 0)
    /\ limiter.backoff_factor = UnitFactor
    /\ limiter.backoff_events = 0

\* C14: for a single caller issuing back-to-back acquire() calls on a
\* freshly constructed limiter of rate R with backoff_factor 1, two
\* consecutive completions are at least 1/R apart, up to the tolerance.
C14_GapAtLeastInterval ==
    C14_SingleCaller
    => \A k \in 2..Len(issued) :
           (issued[k].at - issued[k - 1].at + Tolerance) * limiter.rate
               >= 10 ^ 6

\* C15: with concurrent callers sharing one limiter, the completions of
\* acquire() inside any time interval are never more than the rate times
\* the length of the interval plus the capacity of the bucket (taken as
\* one token at least).
C15_ThroughputWithinRate ==
    \A i \in 1..Len(issued) : \A j \in i..Len(issued) :
        (j - i + 1) * 10 ^ 6
            <= (issued[j].at - issued[i].at) * limiter.rate
               + Max(limiter.rate, OneToken) * 10 ^ 3

\* C16: a call of trigger_exponential_backoff() made while backoff_factor
\* is below max_backoff strictly increases it, to the double capped at
\* max_backoff, and counts one backoff event; made at max_backoff it changes
\* nothing, neither backoff_factor nor backoff_events.
C16_BackoffDoublesUntilMax ==
    [][TriggerBackoff
       => IF limiter.backoff_factor < max_backoff * UnitFactor
          THEN /\ limiter'.backoff_factor > limiter.backoff_factor
               /\ limiter'.backoff_factor
                      = Min(2 * limiter.backoff_factor, max_backoff * UnitFactor)
               /\ limiter'.backoff_events = limiter.backoff_events + 1
          ELSE limiter' = limiter]_vars

\* the factor has been doubled from 1.0 up to max_backoff, where a further
\* call can be made
C16_Witness ==
    /\ limiter.backoff_factor = max_backoff * UnitFactor
    /\ limiter.backoff_events = 6
    /\ limiter.total_requests = 0

\* the rate a decision taken on `successes` out of `observations` sets,
\* as the contract words it
C17_Decided(rate, successes, observations) ==
    IF successes * 10 > 9 * observations
    THEN Min(max_rate, (rate * 12) \div 10)
    ELSE IF successes * 10 < 7 * observations
    THEN Max(min_rate, (rate * 8) \div 10)
    ELSE rate

\* what one observation does, the counters having been s and f before it
\* and being s1 and f1 with it
C17_Observation(s1, f1) ==
    /\ limiter.success_count + limiter.failure_count < adjustment_threshold
    /\ IF s1 + f1 = adjustment_threshold
       THEN /\ limiter'.rate = C17_Decided(limiter.rate, s1, s1 + f1)
            /\ limiter'.success_count = 0
            /\ limiter'.failure_count = 0
            /\ limiter'.decisions = limiter.decisions + 1
       ELSE /\ limiter'.rate = limiter.rate
            /\ limiter'.success_count = s1
            /\ limiter'.failure_count = f1
            /\ limiter'.decisions = limiter.decisions

\* C17: AdaptiveRateLimiter takes a decision exactly at each 10th
\* observation since the previous one: with s the share of successes,
\* s > 0.9 sets rate to min(max_rate, rate * 1.2), s < 0.7 sets it to
\* max(min_rate, rate * 0.8), otherwise rate stays; both counters are then
\* 0 again; at any other observation rate does not change.
C17_DecisionEveryTenth ==
    [][/\ AdaptiveRecordSuccess
          => C17_Observation(limiter.success_count + 1, limiter.failure_count)
       /\ AdaptiveRecordFailure
          => C17_Observation(limiter.success_count, limiter.failure_count + 1)]_vars

\* rate 2.0 and ten successes: the rate is 2.4 and the counters are 0
C17_Witness ==
    /\ limiter.rate = 2400
    /\ limiter.tokens = 2400
    /\ limiter.decisions = 1
    /\ limiter.success_count = 0
    /\ limiter.failure_count = 0

----------------------------------------------------------------------------
(* Properties of the strategy chain *)

\* strategy a is ranked before strategy b by the success rates they had when
\* the call sorted them: a higher rate, or the same rate and registered
\* earlier
C21_RankedBefore(a, b) ==
    LET i == StrategyIndex(svip.at_call, a)
        j == StrategyIndex(svip.at_call, b)
        ti == svip.at_call[i].success_count + svip.at_call[i].failure_count
        tj == svip.at_call[j].success_count + svip.at_call[j].failure_count
        ni == IF ti > 0 THEN svip.at_call[i].success_count ELSE 0
        nj == IF tj > 0 THEN svip.at_call[j].success_count ELSE 0
        di == IF ti > 0 THEN ti ELSE 1
        dj == IF tj > 0 THEN tj ELSE 1
    IN \/ ni * dj > nj * di
       \/ ni * dj = nj * di /\ i < j

\* the strategies of the call are invoked by rank
C21_InRankOrder ==
    \A x \in 1..Len(svip.invoked) : \A y \in (x + 1)..Len(svip.invoked) :
        C21_RankedBefore(svip.invoked[x], svip.invoked[y])

\* C21: the chain invokes the strategies in non-increasing order of success
\* rate, equal rates in registration order; it returns the link of the
\* first strategy that yields one and invokes none after it; it returns
\* None only after every registered strategy has been invoked once.
C21_ChainOrderAndCompleteness ==
    svip.pc \in {"loop", "returned"}
    => /\ C21_InRankOrder
       /\ svip.result = "None"
          => \A i \in 1..Len(svip.at_call) :
                 \E x \in 1..Len(svip.invoked) :
                     /\ svip.invoked[x] = svip.at_call[i].name
                     /\ \A y \in 1..Len(svip.invoked) :
                            svip.invoked[y] = svip.invoked[x] => y = x

----------------------------------------------------------------------------
(* The scenario of the relay pool: resources A, B, C registered in this    *)
(* order, all fresh                                                        *)

\* A took exactly k failures in a row and nothing else
C24_FailuresOnA(k) ==
    /\ parsers[1].name = "A"
    /\ parsers[1].failure_count = k
    /\ parsers[1].consecutive_failures = k
    /\ parsers[1].success_count = 0

\* B took one success and nothing else, C is untouched
C24_SuccessOnB ==
    /\ parsers[2].name = "B"
    /\ parsers[2].success_count = 1
    /\ parsers[2].failure_count = 0
    /\ parsers[3] = NewParser("C")

C24_Ranked(name) ==
    \E i \in 1..Len(get_sorted_parsers) : get_sorted_parsers[i].name = name

\* C24 as stated: after 3 consecutive record_failure calls on A, A is in
\* cooldown and out of rank(); after one record_success on B then, the
\* first element of rank() is B.
C24_ThreeFailuresCoolDown ==
    /\ C24_FailuresOnA(3) => is_in_cooldown(parsers[1]) /\ ~C24_Ranked("A")
    /\ (C24_FailuresOnA(3) /\ C24_SuccessOnB) => get_sorted_parsers[1].name = "B"

\* C24 with the threshold of the code: after 3 consecutive record_failure
\* calls on A, A is not in cooldown and still in rank(); after
\* MAX_CONSECUTIVE_FAILURES = 5 of them it is in cooldown and out of rank();
\* either way, after one record_success on B the first element of rank()
\* is B.
C24_ThresholdFailuresCoolDown ==
    /\ C24_FailuresOnA(3) => ~is_in_cooldown(parsers[1]) /\ C24_Ranked("A")
    /\ C24_FailuresOnA(MAX_CONSECUTIVE_FAILURES)
       => is_in_cooldown(parsers[1]) /\ ~C24_Ranked("A")
    /\ \A k \in {3, MAX_CONSECUTIVE_FAILURES} :
           (C24_FailuresOnA(k) /\ C24_SuccessOnB)
           => get_sorted_parsers[1].name = "B"

\* five failures on A, then the success on B
C24_Witness ==
    /\ C24_FailuresOnA(MAX_CONSECUTIVE_FAILURES)
    /\ C24_SuccessOnB
    /\ Len(get_sorted_parsers) = 2

----------------------------------------------------------------------------
(* Properties of registration *)

\* an entry the contract calls malformed: no name, no template, a template
\* without the {url} placeholder, or a response type that is neither json
\* nor html
C22_Malformed(parser_data) ==
    \/ parser_data.name = None
    \/ parser_data.url_template = None
    \/ ~ \E i \in 1..Len(The(parser_data.url_template)) :
             The(parser_data.url_template)[i] = "{url}"
    \/ /\ parser_data.response_type # None
       /\ The(parser_data.response_type) \notin {"json", "html"}

\* C22: add_parser and the loading of a custom config entry reject a
\* malformed entry at once: add_parser returns False, the pool is left as it
\* was; hence every parser of the pool has a template that holds {url}.
C22_RejectsMalformed ==
    /\ (/\ returned # <<>>
        /\ returned.op \in {"add_parser", "load"}
        /\ C22_Malformed(returned.entry))
       => ~returned.value /\ ~returned.changed
    /\ \A i \in 1..Len(parsers) :
           \E k \in 1..Len(parsers[i].url_template) :
               parsers[i].url_template[k] = "{url}"

\* add_parser has just refused a new name for its template, and custom
\* entries were taken in before: a template of the pool was replaced
C22_Witness ==
    /\ returned # <<>>
    /\ returned.op = "add_parser"
    /\ returned.entry.name = Some("X")
    /\ returned.entry.response_type = Some("json")
    /\ ~returned.value
    /\ \A i \in 1..Len(parsers) : parsers[i].name # "X"
    /\ \E i \in 1..Len(parsers) : parsers[i].url_template # DefaultTemplate

\* the names of a pool are pairwise distinct
C23_Distinct ==
    /\ \A i, j \in 1..Len(parsers) : parsers[i].name = parsers[j].name => i = j
    /\ \A i, j \in 1..Len(proxies) : proxies[i].url = proxies[j].url => i = j

----------------------------------------------------------------------------
(* Properties of the batch calls *)

\* the tasks of the batch that are inside the semaphore block
C25_InFlight == {i \in 1..Len(batch.tasks) : batch.tasks[i].pc = "running"}

\* C25: during scrape_batch_concurrent at most max_concurrent scrape
\* operations are in flight, whatever the number of urls; every url is
\* processed before the call returns, which it does; the tasks may finish in
\* any order.
C25_BoundedConcurrency ==
    /\ [](Cardinality(C25_InFlight) <= batch.max_concurrent)
    /\ [](batch.pc = "returned"
          => /\ \A i \in 1..Len(batch.tasks) : batch.tasks[i].pc \in {"video", "None"}
             /\ Len(batch.done_order) = Len(batch.tasks))
    /\ (batch.pc = "gather") ~> (batch.pc = "returned")

\* as many tasks in flight as the bound allows, among them the first, while
\* the second has finished already
C25_Witness ==
    /\ batch.pc = "gather"
    /\ batch.max_concurrent = 2
    /\ C25_InFlight = {1, 3}
    /\ batch.done_order = <<2>>

\* C26: scrape_batch gives every url of its input to scrape_video, in
\* order, whatever the earlier urls did; it never raises; it returns exactly
\* the results of the urls that succeeded; and afterwards total_videos =
\* successful_videos + failed_videos = the number of urls attempted.
C26_BatchTotals ==
    /\ batch.pc # "raised"
    /\ batch.pc = "returned"
       => /\ batch.tried = batch.urls
          /\ batch.results = batch.succeeded
          /\ batch.stats.total_videos
                 = batch.stats.successful_videos + batch.stats.failed_videos
          /\ batch.stats.total_videos = batch.attempted

\* the same for an engine without a progress callback
C26_TotalsWithoutCallback ==
    ~batch.progress_callback => C26_BatchTotals

\* a batch without callback has returned after a failure followed by a success
C26_WithoutCallbackReached ==
    /\ ~batch.progress_callback
    /\ batch.pc = "returned"
    /\ batch.stats.failed_videos > 0
    /\ batch.results = <<"u2">>
    /\ Len(batch.urls) = 2

----------------------------------------------------------------------------
(* Properties of the stats file *)

\* the ledger of q is the one p had: the counters, hence rate and latency
C27_SameLedger(p, q) ==
    /\ q.success_count = p.success_count
    /\ q.failure_count = p.failure_count
    /\ q.total_response_time = p.total_response_time
    /\ RateEq(p, q)
    /\ AvgEq(p, q)

\* C27: a pool constructed after save_stats has, for every resource whose
\* name is in the file, the success_count, failure_count and
\* total_response_time the resource of that name had when the file was
\* written, hence the same success rate and average latency; names of the
\* file that match no resource add none, and the other resources are as
\* constructed.
C27_RoundTrip ==
    returned.op = "restart"
    => /\ Names(returned.loaded) = Names(returned.fresh)
       /\ \A i \in 1..Len(returned.loaded) :
              LET p == returned.loaded[i]
                  known == IF returned.saved = None THEN {}
                           ELSE {k \in 1..Len(The(returned.saved)) :
                                     The(returned.saved)[k].name = p.name}
              IN  IF known = {} THEN p = returned.fresh[i]
                  ELSE \A k \in known : C27_SameLedger(The(returned.saved)[k], p)

\* the file has the ledger of X, the new pool has no X, and A gets its
\* success of latency 2 back
C27_Witness ==
    /\ returned.op = "restart"
    /\ returned.saved # None
    /\ "X" \in {The(returned.saved)[k].name : k \in 1..Len(The(returned.saved))}
    /\ Len(returned.loaded) = Len(DEFAULT_PARSERS)
    /\ returned.loaded[1].success_count = 1
    /\ returned.loaded[1].total_response_time = 2
    /\ The(returned.saved)[4].success_count = 1

----------------------------------------------------------------------------
(* Properties of the tuned limiter *)

\* C28: whatever the interleaving of the acquire() calls of the callers and
\* of update_rate calls, the token count of the limiter is at least 0 and at
\* most rate.
C28_TokensWithinBucket ==
    /\ 0 <= limiter.tokens
    /\ limiter.tokens <= limiter.rate

\* C29: after any sequence of acquire, set_backoff(f) with f > 0,
\* trigger_exponential_backoff and reset_backoff, backoff_factor is at least
\* 1 and at most max_backoff; reset_backoff leaves it at 1; the decay of an
\* acquire() that does not block never takes it below 1.
C29_FactorWithinBounds ==
    /\ UnitFactor <= limiter.backoff_factor
    /\ limiter.backoff_factor <= max_backoff * UnitFactor
    /\ returned.op = "reset_backoff" => returned.after.backoff_factor = UnitFactor

\* tokens is a * new_rate / old_rate, rounded down to a thousandth
C30_Rescaled(tokens, a, new_rate, old_rate) ==
    /\ tokens * old_rate <= a * new_rate
    /\ a * new_rate < (tokens + 1) * old_rate

\* update_rate left min(new_rate, tokens * new_rate / old_rate) tokens
C30_RescaledAndClamped ==
    LET b == returned.before
        a == returned.after
    IN  /\ a.rate = returned.arg
        /\ a.tokens <= returned.arg
        /\ \/ C30_Rescaled(a.tokens, b.tokens, returned.arg, b.rate)
           \/ /\ a.tokens = returned.arg
              /\ b.tokens * returned.arg >= returned.arg * b.rate

\* C30 as stated: update_rate(new_rate) sets rate to new_rate and tokens to
\* min(new_rate, tokens * new_rate / old_rate), when the rate increases and
\* when it decreases.
C30_AlwaysRescales ==
    returned.op = "update_rate" => C30_RescaledAndClamped

\* C30 as the code has it: update_rate(new_rate) sets rate to new_rate; when
\* the rate increases tokens becomes min(new_rate, tokens * new_rate /
\* old_rate); when it does not, tokens becomes min(new_rate, tokens).
C30_RescalesOnIncrease ==
    returned.op = "update_rate"
    => IF returned.arg > returned.before.rate
       THEN C30_RescaledAndClamped
       ELSE /\ returned.after.rate = returned.arg
            /\ returned.after.tokens = Min(returned.arg, returned.before.tokens)

\* the rate went from 1.0 to 2.0 with half a token in the bucket, which
\* became one token
C30_Witness ==
    /\ returned.op = "update_rate"
    /\ returned.before.rate = 1000
    /\ returned.arg = 2000
    /\ returned.before.tokens = 500
    /\ returned.after.tokens = 1000

----------------------------------------------------------------------------
(* Properties of the adaptive limiter, continued *)

\* C31: an AdaptiveRateLimiter built with min_rate <= initial_rate <=
\* max_rate has, after any sequence of record_success and record_failure
\* calls, min_rate <= rate <= max_rate, and no more tokens than its rate.
C31_RateWithinBounds ==
    /\ limiter.min_rate <= limiter.rate
    /\ limiter.rate <= limiter.max_rate
    /\ limiter.tokens <= limiter.rate

\* a decision raised the rate of 9.0, and max_rate held it at 10.0
C31_Witness ==
    /\ limiter.decisions = 1
    /\ limiter.rate = limiter.max_rate
    /\ limiter.tokens = limiter.max_rate

----------------------------------------------------------------------------
(* Properties of the retry helpers *)

\* C32: _should_retry(status, attempt) is true exactly when attempt <
\* max_retries and status is 408, 429 or in 500..599; so it is false for 200
\* and 404 at any attempt, false for every status when attempt >=
\* max_retries, and false for every status when max_retries = 0.
C32_RetryableExactly ==
    returned.op = "should_retry"
    => /\ returned.retry <=> /\ returned.attempt < returned.max_retries
                             /\ returned.status \in {408, 429} \cup (500..599)
       /\ returned.status \in {200, 404} => ~returned.retry
       /\ returned.attempt >= returned.max_retries => ~returned.retry
       /\ returned.max_retries = 0 => ~returned.retry

\* the last retry of a timeout status is granted
C32_Witness ==
    /\ returned.op = "should_retry"
    /\ returned.status = 408
    /\ returned.attempt = 2
    /\ returned.max_retries = 3
    /\ returned.retry

\* base * 2^attempt in milliseconds, base being 2.0 for 429, 1.5 for
\* 500..599 and 1.0 otherwise
C33_Exponential ==
    (CASE returned.status = 429 -> 2000
       [] returned.status \in 500..599 -> 1500
       [] OTHER -> 1000) * (2 ^ returned.attempt)

\* a delay was computed for a status in 400..599
C33_Computed ==
    /\ returned.op = "calculate_backoff_delay"
    /\ returned.status \in 400..599

----------------------------------------------------------------------------
(* Properties of the proxy pool, continued *)

\* C34: mark_proxy_failed adds one to the failure_count of the proxy, leaves
\* an ACTIVE proxy ACTIVE while the new failure_count is below 3 and makes
\* the proxy FAILED when the new failure_count is 3 or more; reset_proxy
\* returns the proxy to ACTIVE with failure_count 0.
C34_FailedAtThree ==
    [][\A url \in ProxyUrls :
           /\ MarkProxyFailed(url)
              => LET p == ProxyOf(proxies, url)
                     q == ProxyOf(proxies', url)
                 IN  /\ q.failure_count = p.failure_count + 1
                     /\ (p.status = "ACTIVE" /\ q.failure_count < 3)
                        => q.status = "ACTIVE"
                     /\ q.failure_count >= 3 => q.status = "FAILED"
           /\ ResetProxy(url)
              => /\ ProxyOf(proxies', url).status = "ACTIVE"
                 /\ ProxyOf(proxies', url).failure_count = 0]_vars

\* three request failures in a row have made p1 FAILED
C34_Witness ==
    /\ Registered("p1")
    /\ ProxyOf(proxies, "p1").request_fails = 3
    /\ ProxyOf(proxies, "p1").failure_count = 3
    /\ ProxyOf(proxies, "p1").status = "FAILED"

----------------------------------------------------------------------------
(* Properties of the health-check task *)

C38_CheckingIsTransient ==
    /\ \A i \in 1..Len(proxies) :
           proxies[i].status = "CHECKING"
               => \E e \in probing : e.url = proxies[i].url
    /\ check_task.stopped
           => \A i \in 1..Len(proxies) : proxies[i].status # "CHECKING"

\* C39: at every instant, also while a round of the health check is under
\* way, if some registered proxy is neither FAILED nor BANNED then
\* get_active_proxy returns a proxy, not None.
C39_HealthyPoolNeverEmpty ==
    (\E i \in 1..Len(proxies) : proxies[i].status \notin {"FAILED", "BANNED"})
        => None \notin get_active_proxy

----------------------------------------------------------------------------
(* C36: cancelling parse() where it is suspended (in the request or in the *)
(* delay between attempts) leaves every ledger as whole _record_success    *)
(* and _record_failure operations made it: each step changes the pool by   *)
(* one whole operation on one relay or not at all, the cancellation itself *)
(* changes no ledger and records nothing, and the attempt in flight at the *)
(* cancellation is counted neither as a success nor as a failure.          *)
C36_WholeOperation ==
    LET ledger(p) == [p EXCEPT !.enabled = TRUE]
        ledgers(ps) == [i \in 1..Len(ps) |-> ledger(ps[i])]
    IN  \/ ledgers(parsers') = ledgers(parsers)
        \/ \E name \in PoolNames :
               \/ ledgers(parsers') =
                      ledgers(UpdateByName(parsers, name,
                                  LAMBDA p : record_failure(p, now)))
               \/ ledgers(parsers') =
                      ledgers(UpdateByName(parsers, name,
                                  LAMBDA p : record_success(p, now - start_time)))

C36_Cancelled ==
    pc = "cancelled" =>
        /\ recS = <<>>
        /\ Len(attempted) - Len(recF) \in {0, 1}
        /\ \A k \in 1..Len(recF) : recF[k] = attempted[k]

C36_CancelKeepsLedgers ==
    /\ []C36_Cancelled
    /\ [][/\ C36_WholeOperation
          /\ pc # "cancelled" /\ pc' = "cancelled" =>
                 /\ pc \in {"await_get", "sleep"}
                 /\ parsers' = parsers
                 /\ recS' = recS /\ recF' = recF /\ attempted' = attempted]_vars

\* cancelled in the request to the second relay, after the first failed
C36_Witness ==
    /\ pc = "cancelled"
    /\ Len(attempted) = 2
    /\ Len(recF) = 1
    /\ parsers[get_parser_by_name(parsers, attempted[1])].failure_count >= 1
    /\ parsers[get_parser_by_name(parsers, attempted[2])].failure_count = 0

----------------------------------------------------------------------------
(* C37: within one parse() call every failed attempt that is followed by   *)
(* an attempt on the next ranked relay is separated from it by the delay   *)
(* between attempts (asyncio.sleep(0.3)), whichever way it failed: the     *)
(* request for a further relay is issued only by the step that ends the    *)
(* delay.                                                                  *)
C37_DelayBetweenAttempts ==
    [][(/\ attempted # <<>>
        /\ Len(attempted') = Len(attempted) + 1) => pc = "sleep"]_vars

----------------------------------------------------------------------------
(* C40: for every relay, after any sequence of _record_success,            *)
(* _record_failure and reset_stats from construction, cooldown_until is    *)
(* set only if consecutive_failures >= MAX_CONSECUTIVE_FAILURES, and       *)
(* consecutive_failures <= failure_count.                                  *)
C40_CooldownOnlyAfterStreak ==
    \A i \in 1..Len(parsers) :
        /\ parsers[i].cooldown_until # None =>
               parsers[i].consecutive_failures >= MAX_CONSECUTIVE_FAILURES
        /\ parsers[i].consecutive_failures <= parsers[i].failure_count

\* a cooldown set by a streak that began after a success, itself after
\* earlier failures
C40_Witness ==
    \E i \in 1..Len(parsers) :
        /\ parsers[i].cooldown_until # None
        /\ parsers[i].success_count >= 1
        /\ parsers[i].consecutive_failures >= MAX_CONSECUTIVE_FAILURES
        /\ parsers[i].failure_count > parsers[i].consecutive_failures

====
